---- MODULE Spec2Model ----
(***************************************************************************)
(* time_value: net present value, the initial-bounds finder `determine`    *)
(* and the `bisection` IRR solver.                                         *)
(*                                                                         *)
(* The code is generic over T: Float.  The model instantiates T with a    *)
(* small binary floating-point format that follows IEEE 754 (round to      *)
(* nearest, ties to even, gradual underflow, overflow to infinity, NaN):   *)
(* Precision significand bits, normal exponents -MinExponent..MaxExponent. *)
(* A finite value is [k |-> "fin", m |-> m, e |-> e], standing for m * 2^e *)
(* with m odd (or m = 0 for a zero): every value has one representation, so *)
(* TLA+ equality is the bitwise equality of two non-NaN floats.  There are  *)
(* two zeros, Zero (0.0) and NegZero (-0.0): they compare equal under <    *)
(* and <=, and differ in the sign they give a product, a quotient or an    *)
(* infinity, and in how they print.  The arithmetic of T is written as     *)
(* functions on T, which TLC applies to evaluated arguments.               *)
(***************************************************************************)
EXTENDS Integers, Sequences, FiniteSets, TLC

\* ------------------------------------------------------------------------
\* The numeric type T
\* ------------------------------------------------------------------------

\* significand bits of T (f32: 24, f64: 53)
Precision == 4
\* largest normal exponent of T (f32: 127)
MaxExponent == 6
\* minus the smallest normal exponent of T (f32: 126)
MinExponent == 20

RECURSIVE Pow2(_)
Pow2(n) == IF n <= 0 THEN 1 ELSE 2 * Pow2(n - 1)

\* exponent of the unit in the last place of the subnormals
TinyExponent == 0 - MinExponent - Precision + 1

\* the values of T
T == [k : {"fin", "inf", "nan"}, m : Int, e : Int]

NaN == [k |-> "nan", m |-> 0, e |-> 0]
PosInf == [k |-> "inf", m |-> 1, e |-> 0]
NegInf == [k |-> "inf", m |-> -1, e |-> 0]
Zero == [k |-> "fin", m |-> 0, e |-> 0]
\* -0.0: m = 0 as for 0.0, told apart by e
NegZero == [k |-> "fin", m |-> 0, e |-> -1]

IsNaN(a) == a.k = "nan"
IsInf(a) == a.k = "inf"
IsFin(a) == a.k = "fin"

Sgn(n) == IF n > 0 THEN 1 ELSE IF n < 0 THEN -1 ELSE 0
AbsInt(n) == IF n < 0 THEN 0 - n ELSE n
Inf(s) == IF s < 0 THEN NegInf ELSE PosInf

\* -1 when the sign bit of a (not NaN) is set, else 1
SignOf(a) == IF a.m < 0 \/ a = NegZero THEN -1 ELSE 1
\* the zero of sign s
ZeroOf(s) == IF s < 0 THEN NegZero ELSE Zero

\* the one representation of m * 2^e: m odd, or zero
FinT[m \in Int, e \in Int] ==
    IF m = 0 THEN Zero
    ELSE IF m % 2 = 0 THEN FinT[m \div 2, e + 1]
    ELSE [k |-> "fin", m |-> m, e |-> e]
Fin(m, e) == FinT[m, e]

\* floor(log2(a / d)) for a, d > 0
Log2FloorT[a \in Int, d \in Int] ==
    IF a >= 2 * d THEN Log2FloorT[a, 2 * d] + 1
    ELSE IF a < d THEN Log2FloorT[2 * a, d] - 1
    ELSE 0
Log2Floor(a, d) == Log2FloorT[a, d]

\* u / v (u >= 0, v > 0) rounded to the nearest integer, ties to even
RoundHalfEvenT[u \in Int, v \in Int] ==
    LET q == u \div v
        r == u % v
    IN  IF 2 * r < v THEN q
        ELSE IF 2 * r > v THEN q + 1
        ELSE IF q % 2 = 0 THEN q ELSE q + 1
RoundHalfEven(u, v) == RoundHalfEvenT[u, v]

\* the exponent of the unit in the last place of a value whose leading bit
\* has weight 2^lg: lg - Precision + 1, or TinyExponent for a subnormal
UlpExponent[lg \in Int] ==
    IF lg - Precision + 1 < TinyExponent THEN TinyExponent
    ELSE lg - Precision + 1

\* (a / d) * 2^sh rounded to an integer (a >= 0, d > 0)
Mantissa[a \in Int, d \in Int, sh \in Int] ==
    IF sh >= 0 THEN RoundHalfEven(a * Pow2(sh), d)
    ELSE RoundHalfEven(a, d * Pow2(0 - sh))

\* s * mant * 2^ulp, or the infinity of sign s when that exceeds MaxValue
Pack[s \in Int, mant \in Int, ulp \in Int] ==
    IF \/ ulp > MaxExponent - Precision + 1
       \/ ulp = MaxExponent - Precision + 1 /\ mant >= Pow2(Precision)
    THEN Inf(s)
    ELSE IF mant = 0 THEN ZeroOf(s)
    ELSE Fin(s * mant, ulp)

\* (n / d) * 2^x rounded to a multiple of 2^ulp
RoundAt[n \in Int, d \in Int, x \in Int, ulp \in Int] ==
    Pack[Sgn(n), Mantissa[AbsInt(n), d, x - ulp], ulp]

\* the value of T nearest to (n / d) * 2^x  (d > 0)
RoundT[n \in Int, d \in Int, x \in Int] ==
    IF n = 0 THEN Zero
    ELSE RoundAt[n, d, x, UlpExponent[Log2Floor(AbsInt(n), d) + x]]
Round(n, d, x) == RoundT[n, d, x]

\* T::from(n) for an integer literal
FromInt(n) == Round(n, 1, 0)

\* T::epsilon()
Epsilon == Fin(1, 1 - Precision)

\* T::max_value()
MaxValue == Fin(Pow2(Precision) - 1, MaxExponent - Precision + 1)

NegT[a \in T] ==
    IF IsNaN(a) THEN NaN
    ELSE IF a.m = 0 THEN ZeroOf(0 - SignOf(a))
    ELSE [a EXCEPT !.m = 0 - a.m]
Neg(a) == NegT[a]

AbsT[a \in T] ==
    IF IsNaN(a) THEN NaN
    ELSE IF a.m = 0 THEN Zero
    ELSE [a EXCEPT !.m = AbsInt(a.m)]
Abs(a) == AbsT[a]

\* floor(log2(|a|)) for a finite, nonzero a
TopExp(a) == Log2Floor(AbsInt(a.m), 1) + a.e

\* a and b finite: the integers ma, mb with a = ma * 2^x, b = mb * 2^x
AlignExp(a, b) == IF a.e < b.e THEN a.e ELSE b.e
AlignMant(a, x) == a.m * Pow2(a.e - x)

\* a + b; an operand below a quarter of the other's unit in the last place
\* does not change the rounded sum
AddT[a \in T, b \in T] ==
    IF IsNaN(a) \/ IsNaN(b) THEN NaN
    ELSE IF IsInf(a) /\ IsInf(b) THEN (IF a.m = b.m THEN a ELSE NaN)
    ELSE IF IsInf(a) THEN a
    ELSE IF IsInf(b) THEN b
    ELSE IF a.m = 0 /\ b.m = 0
         THEN (IF a = NegZero /\ b = NegZero THEN NegZero ELSE Zero)
    ELSE IF a.m = 0 THEN b
    ELSE IF b.m = 0 THEN a
    ELSE IF TopExp(a) - TopExp(b) > Precision + 1 THEN a
    ELSE IF TopExp(b) - TopExp(a) > Precision + 1 THEN b
    ELSE LET x == AlignExp(a, b)
         IN  Round(AlignMant(a, x) + AlignMant(b, x), 1, x)
Add(a, b) == AddT[a, b]

Sub(a, b) == Add(a, Neg(b))

MulT[a \in T, b \in T] ==
    IF IsNaN(a) \/ IsNaN(b) THEN NaN
    ELSE IF IsInf(a) \/ IsInf(b)
         THEN (IF a.m = 0 \/ b.m = 0 THEN NaN ELSE Inf(SignOf(a) * SignOf(b)))
    ELSE IF a.m = 0 \/ b.m = 0 THEN ZeroOf(SignOf(a) * SignOf(b))
    ELSE Round(a.m * b.m, 1, a.e + b.e)
Mul(a, b) == MulT[a, b]

DivT[a \in T, b \in T] ==
    IF IsNaN(a) \/ IsNaN(b) THEN NaN
    ELSE IF IsInf(a) THEN (IF IsInf(b) THEN NaN ELSE Inf(SignOf(a) * SignOf(b)))
    ELSE IF IsInf(b) THEN ZeroOf(SignOf(a) * SignOf(b))
    ELSE IF b.m = 0 THEN (IF a.m = 0 THEN NaN ELSE Inf(SignOf(a) * SignOf(b)))
    ELSE IF a.m = 0 THEN ZeroOf(SignOf(a) * SignOf(b))
    ELSE Round(a.m * Sgn(b.m), AbsInt(b.m), a.e - b.e)
Div(a, b) == DivT[a, b]

\* a < b for finite a, b
LtFin(a, b) ==
    IF a.m = 0 THEN b.m > 0
    ELSE IF b.m = 0 THEN a.m < 0
    ELSE IF Sgn(a.m) # Sgn(b.m) THEN a.m < 0
    ELSE IF TopExp(a) # TopExp(b)
         THEN (IF a.m > 0 THEN TopExp(a) < TopExp(b) ELSE TopExp(a) > TopExp(b))
    ELSE LET x == AlignExp(a, b)
         IN  AlignMant(a, x) < AlignMant(b, x)

\* a < b; false when either is NaN
LtT[a \in T, b \in T] ==
    IF IsNaN(a) \/ IsNaN(b) THEN FALSE
    ELSE IF IsInf(a) THEN a.m < 0 /\ b # NegInf
    ELSE IF IsInf(b) THEN b.m > 0
    ELSE LtFin(a, b)
Lt(a, b) == LtT[a, b]

\* a <= b; false when either is NaN
LeT[a \in T, b \in T] ==
    /\ ~IsNaN(a)
    /\ ~IsNaN(b)
    /\ (a = b \/ (IsFin(a) /\ IsFin(b) /\ a.m = 0 /\ b.m = 0) \/ Lt(a, b))
Le(a, b) == LeT[a, b]

\* a == b: false when either is NaN, true for the two zeros
Eq(a, b) == Le(a, b) /\ Le(b, a)

\* ------------------------------------------------------------------------
\* present_value.rs
\* ------------------------------------------------------------------------

One == FromInt(1)
Two == FromInt(2)

\* f32::powi / f64::powi for an exponent -n (n >= 0): square-and-multiply
\* on |exponent|, then the reciprocal 1/r when the exponent is negative
RECURSIVE PowiLoop(_, _, _)
PowiLoop(a, n, r) ==
    LET r1 == IF n % 2 = 1 THEN Mul(r, a) ELSE r
    IN  IF n \div 2 = 0 THEN r1 ELSE PowiLoop(Mul(a, a), n \div 2, r1)

powi_neg(a, n) == IF n = 0 THEN One ELSE Div(One, PowiLoop(a, n, One))

\* lines 47-50 with the period counted from 1
present_value_from_period_one(cash_flow, period, discount_rate) ==
    LET discount == Add(One, discount_rate)
        discount_factor == powi_neg(discount, period + 1)
    IN  Mul(cash_flow, discount_factor)

present_value(cash_flow, period, discount_rate) ==
    LET discount == Add(One, discount_rate)
        discount_factor == powi_neg(discount, period)
    IN  Mul(cash_flow, discount_factor)

\* .enumerate().map(present_value).sum(): the sum of the first n terms;
\* the Sum of floats starts from -0.0
RECURSIVE SumPresentValues(_, _, _)
SumPresentValues(cfs, rate, n) ==
    IF n = 0 THEN NegZero
    ELSE Add(SumPresentValues(cfs, rate, n - 1), present_value(cfs[n], n - 1, rate))

\* lines 133-138 with the sum started from one
from_cash_flows_summed_from_one(cfs, discount_rate) ==
    Add(One, SumPresentValues(cfs, discount_rate, Len(cfs)))

from_cash_flows_and_discount_rate(cfs, discount_rate) ==
    SumPresentValues(cfs, discount_rate, Len(cfs))

pv(cfs, rate) == from_cash_flows_and_discount_rate(cfs, rate)

\* ------------------------------------------------------------------------
\* irr/bisection: constants, are_equal_enough, midpoint
\* ------------------------------------------------------------------------

\* T::from(NPV_PRECISION): the f32 nearest 0.001 is 8589935 * 2^-33
NPV_PRECISION == Round(8589935, 1, -33)

\* lines 25-31 with the tolerance T::epsilon() not scaled by the larger operand
is_true_absolute(a, b) ==
    LET difference == Abs(Sub(a, b))
    IN  Le(difference, Epsilon)

is_true(a, b) ==
    LET difference == Abs(Sub(a, b))
        a_abs == Abs(a)
        b_abs == Abs(b)
        larger == IF Lt(a_abs, b_abs) THEN b_abs ELSE a_abs
    IN  Le(difference, Mul(larger, Epsilon))

\* line 23 with the difference doubled
calculate_by_doubling(a, c) == Add(a, Mul(Sub(c, a), Two))

\* line 23 without the division by two
calculate_without_halving(a, c) == Add(a, Sub(c, a))

calculate(a, c) == Add(a, Div(Sub(c, a), Two))

\* lines 79-83 without the cap at T::max_value()
generate_epsilon_multiple_uncapped(epsilon_multiple) ==
    Mul(epsilon_multiple, Two)

generate_epsilon_multiple(epsilon_multiple) ==
    IF Lt(epsilon_multiple, Div(MaxValue, Two))
    THEN Mul(epsilon_multiple, Two)
    ELSE MaxValue

\* ------------------------------------------------------------------------
\* The result records
\* ------------------------------------------------------------------------

InitialBoundsNew(rate_low, npv_rate_low, rate_high, npv_rate_high, iteration_limit, iterations_run, is_valid) ==
    [rate_low |-> rate_low, npv_rate_low |-> npv_rate_low,
     rate_high |-> rate_high, npv_rate_high |-> npv_rate_high,
     iteration_limit |-> iteration_limit, iterations_run |-> iterations_run,
     is_valid |-> is_valid]

IrrNew(rate_low, npv_rate_low, rate_high, npv_rate_high, iteration_limit, iterations_run, irr, npv, is_valid) ==
    [rate_low |-> rate_low, npv_rate_low |-> npv_rate_low,
     rate_high |-> rate_high, npv_rate_high |-> npv_rate_high,
     iteration_limit |-> iteration_limit, iterations_run |-> iterations_run,
     irr |-> irr, npv |-> npv, is_valid |-> is_valid]

\* ------------------------------------------------------------------------
\* The caller's inputs
\* ------------------------------------------------------------------------

\* largest iteration_limit a caller passes
MaxLimit == 3
\* calls one caller makes in a row, each later call fed from the record
\* the call before it returned
MaxCalls == 3

\* iteration_limit: &i16
Limits == -1 .. MaxLimit

\* the rates a caller passes: 0, 1/2, -1/2, 1, -1, 1/4, 2, -2
Rates == {Zero, Fin(1, -1), Fin(-1, -1), One, FromInt(-1), Fin(1, -2),
          Two, FromInt(-2)}

\* half the tolerance, and the value of T next above the tolerance
HalfPrecision == Div(NPV_PRECISION, Two)
AbovePrecision == Add(NPV_PRECISION, Mul(NPV_PRECISION, Epsilon))

\* the series a caller passes
CashFlowSeries ==
    {<<>>,
     <<HalfPrecision>>,
     <<Mul(Two, AbovePrecision), Neg(Mul(Two, AbovePrecision))>>,
     <<Mul(FromInt(5), NPV_PRECISION), Mul(FromInt(-6), NPV_PRECISION)>>,
     <<FromInt(-1), One>>,
     <<FromInt(-2), One>>,
     <<FromInt(-3), FromInt(4)>>,
     <<FromInt(4), FromInt(-5)>>,
     <<Zero, Zero>>,
     <<FromInt(-2), FromInt(3), FromInt(-1)>>,
     <<FromInt(-1), Zero, FromInt(4)>>}

VARIABLES
    cash_flows,   \* the caller's series
    pc,           \* "idle", or the function whose loop is running
    calls,        \* calls made so far
    call,         \* the arguments of the running or last call
    det,          \* determine's locals (<<>> outside its loop)
    bis,          \* bisection's locals (<<>> outside its loop)
    bounds,       \* the InitialBounds the last determine call returned
    result,       \* the Irr the last bisection call returned
    previous,     \* the Irr whose bounds the last bisection call was fed
                  \* (RepeatSpec: the earlier calls and their records;
                  \* LeafSpec: the value of the call before)
    mids          \* NPVs of the earlier midpoints of this bisection call

vars == <<cash_flows, pc, calls, call, det, bis, bounds, result, previous, mids>>

Init ==
    /\ cash_flows \in CashFlowSeries
    /\ pc = "idle"
    /\ calls = 0
    /\ call = <<>>
    /\ det = <<>>
    /\ bis = <<>>
    /\ bounds = <<>>
    /\ result = <<>>
    /\ previous = <<>>
    /\ mids = <<>>

\* ------------------------------------------------------------------------
\* initial_bounds::determine
\* ------------------------------------------------------------------------

\* line 15, with the older finder's test (irr/bisection/initial_bounds.rs:23)
GoodGuessEqualsZero(npv_rate_guess) == is_true(npv_rate_guess, Zero)

\* line 15: the guess is already a root
GoodGuess(npv_rate_guess) == Lt(Abs(npv_rate_guess), NPV_PRECISION)

DetermineCall(rate_guess, iteration_limit) ==
    [fn |-> "determine", rate_low_guess |-> rate_guess, rate_high_guess |-> rate_guess,
     iteration_limit |-> iteration_limit, from |-> "caller"]

\* lines 14-25: the guess is already a root
DetermineGoodGuess(rate_guess, iteration_limit) ==
    LET npv_rate_guess == pv(cash_flows, rate_guess)
    IN  /\ pc = "idle"
        /\ calls = 0
        /\ GoodGuess(pv(cash_flows, rate_guess))
        /\ bounds' = <<InitialBoundsNew(rate_guess, npv_rate_guess, rate_guess,
                                        npv_rate_guess, iteration_limit, 0, TRUE)>>
        /\ call' = <<DetermineCall(rate_guess, iteration_limit)>>
        /\ calls' = calls + 1
        /\ UNCHANGED <<cash_flows, pc, det, bis, result, previous, mids>>

\* lines 14-33: the first bracket around the guess
DetermineStart(rate_guess, iteration_limit) ==
    LET epsilon_multiple == FromInt(10)
        rate_low == Sub(rate_guess, Mul(epsilon_multiple, Epsilon))
        rate_high == Add(rate_guess, Mul(epsilon_multiple, Epsilon))
        npv_rate_low == pv(cash_flows, rate_low)
        npv_rate_high == pv(cash_flows, rate_high)
    IN  /\ pc = "idle"
        /\ calls = 0
        /\ ~GoodGuess(pv(cash_flows, rate_guess))
        /\ det' = <<[epsilon_multiple |-> epsilon_multiple,
                     rate_low |-> rate_low, rate_high |-> rate_high,
                     npv_rate_low |-> npv_rate_low, npv_rate_high |-> npv_rate_high,
                     iterations_run |-> 0,
                     go_low |-> Lt(Abs(npv_rate_low), Abs(npv_rate_high))]>>
        /\ pc' = "determine"
        /\ call' = <<DetermineCall(rate_guess, iteration_limit)>>
        /\ calls' = calls + 1
        /\ bounds' = <<>>
        /\ UNCHANGED <<cash_flows, bis, result, previous, mids>>

\* lines 35-46: the bracket straddles a sign change
DetermineFound ==
    /\ pc = "determine"
    /\ det[1].iterations_run < call[1].iteration_limit
    /\ Le(Mul(det[1].npv_rate_low, det[1].npv_rate_high), Zero)
    /\ bounds' = <<InitialBoundsNew(det[1].rate_low, det[1].npv_rate_low,
                                    det[1].rate_high, det[1].npv_rate_high,
                                    call[1].iteration_limit, det[1].iterations_run, TRUE)>>
    /\ pc' = "idle"
    /\ det' = <<>>
    /\ UNCHANGED <<cash_flows, calls, call, bis, result, previous, mids>>

\* lines 35-62 without line 61: the step is not counted
DetermineShiftUncounted ==
    LET d == det[1]
        epsilon_multiple == generate_epsilon_multiple(d.epsilon_multiple)
        rate_low == IF d.go_low THEN Sub(d.rate_low, Mul(epsilon_multiple, Epsilon))
                    ELSE d.rate_high
        rate_high == IF d.go_low THEN d.rate_low
                     ELSE Add(d.rate_high, Mul(epsilon_multiple, Epsilon))
    IN  /\ pc = "determine"
        /\ d.iterations_run < call[1].iteration_limit
        /\ ~Le(Mul(d.npv_rate_low, d.npv_rate_high), Zero)
        /\ det' = <<[d EXCEPT !.epsilon_multiple = epsilon_multiple,
                              !.rate_low = rate_low,
                              !.rate_high = rate_high,
                              !.npv_rate_low = pv(cash_flows, rate_low),
                              !.npv_rate_high = pv(cash_flows, rate_high)]>>
        /\ UNCHANGED <<cash_flows, pc, calls, call, bis, bounds, result, previous, mids>>

\* lines 35-62 without line 51: the high bound stays when searching low
DetermineShiftKeepsHigh ==
    LET d == det[1]
        epsilon_multiple == generate_epsilon_multiple(d.epsilon_multiple)
        rate_low == IF d.go_low THEN Sub(d.rate_low, Mul(epsilon_multiple, Epsilon))
                    ELSE d.rate_high
        rate_high == IF d.go_low THEN d.rate_high
                     ELSE Add(d.rate_high, Mul(epsilon_multiple, Epsilon))
    IN  /\ pc = "determine"
        /\ d.iterations_run < call[1].iteration_limit
        /\ ~Le(Mul(d.npv_rate_low, d.npv_rate_high), Zero)
        /\ det' = <<[d EXCEPT !.epsilon_multiple = epsilon_multiple,
                              !.rate_low = rate_low,
                              !.rate_high = rate_high,
                              !.npv_rate_low = pv(cash_flows, rate_low),
                              !.npv_rate_high = pv(cash_flows, rate_high),
                              !.iterations_run = d.iterations_run + 1]>>
        /\ UNCHANGED <<cash_flows, pc, calls, call, bis, bounds, result, previous, mids>>

\* lines 35-62: one step further in the chosen direction
DetermineShift ==
    LET d == det[1]
        epsilon_multiple == generate_epsilon_multiple(d.epsilon_multiple)
        rate_low == IF d.go_low THEN Sub(d.rate_low, Mul(epsilon_multiple, Epsilon))
                    ELSE d.rate_high
        rate_high == IF d.go_low THEN d.rate_low
                     ELSE Add(d.rate_high, Mul(epsilon_multiple, Epsilon))
    IN  /\ pc = "determine"
        /\ d.iterations_run < call[1].iteration_limit
        /\ ~Le(Mul(d.npv_rate_low, d.npv_rate_high), Zero)
        /\ det' = <<[d EXCEPT !.epsilon_multiple = epsilon_multiple,
                              !.rate_low = rate_low,
                              !.rate_high = rate_high,
                              !.npv_rate_low = pv(cash_flows, rate_low),
                              !.npv_rate_high = pv(cash_flows, rate_high),
                              !.iterations_run = d.iterations_run + 1]>>
        /\ UNCHANGED <<cash_flows, pc, calls, call, bis, bounds, result, previous, mids>>

\* lines 35, 64-72 with the loop left one pass early
DetermineExhaustedEarly ==
    /\ pc = "determine"
    /\ ~(det[1].iterations_run + 1 < call[1].iteration_limit)
    /\ bounds' = <<InitialBoundsNew(det[1].rate_low, det[1].npv_rate_low,
                                    det[1].rate_high, det[1].npv_rate_high,
                                    call[1].iteration_limit, det[1].iterations_run, FALSE)>>
    /\ pc' = "idle"
    /\ det' = <<>>
    /\ UNCHANGED <<cash_flows, calls, call, bis, result, previous, mids>>

\* lines 35, 64-72 with the test of line 36 applied to the last bracket
DetermineExhaustedTestsBracket ==
    /\ pc = "determine"
    /\ ~(det[1].iterations_run < call[1].iteration_limit)
    /\ bounds' = <<InitialBoundsNew(det[1].rate_low, det[1].npv_rate_low,
                                    det[1].rate_high, det[1].npv_rate_high,
                                    call[1].iteration_limit, det[1].iterations_run,
                                    Le(Mul(det[1].npv_rate_low, det[1].npv_rate_high), Zero))>>
    /\ pc' = "idle"
    /\ det' = <<>>
    /\ UNCHANGED <<cash_flows, calls, call, bis, result, previous, mids>>

\* lines 35, 64-72: the budget is used up
DetermineExhausted ==
    /\ pc = "determine"
    /\ ~(det[1].iterations_run < call[1].iteration_limit)
    /\ bounds' = <<InitialBoundsNew(det[1].rate_low, det[1].npv_rate_low,
                                    det[1].rate_high, det[1].npv_rate_high,
                                    call[1].iteration_limit, det[1].iterations_run, FALSE)>>
    /\ pc' = "idle"
    /\ det' = <<>>
    /\ UNCHANGED <<cash_flows, calls, call, bis, result, previous, mids>>

\* ------------------------------------------------------------------------
\* irr::bisection
\* ------------------------------------------------------------------------

\* the calls of bisection a caller makes: with its own rates; with the
\* bounds of a valid InitialBounds (irr.rs:149-158); with the bounds of the
\* Irr it got back
BisectionCalls ==
    IF pc # "idle" \/ calls >= MaxCalls THEN {}
    ELSE IF calls = 0
    THEN {[fn |-> "bisection", rate_low_guess |-> lo, rate_high_guess |-> hi,
           iteration_limit |-> l, from |-> "caller"] :
             lo \in Rates, hi \in Rates, l \in Limits}
    ELSE IF call[1].fn = "determine"
    THEN IF bounds[1].is_valid
         THEN {[fn |-> "bisection", rate_low_guess |-> bounds[1].rate_low,
                rate_high_guess |-> bounds[1].rate_high,
                iteration_limit |-> call[1].iteration_limit, from |-> "bounds"]}
         ELSE {}
    ELSE {[fn |-> "bisection", rate_low_guess |-> result[1].rate_low,
           rate_high_guess |-> result[1].rate_high,
           iteration_limit |-> call[1].iteration_limit, from |-> "result"]}

\* line 66 with the comparison turned round
BracketInvalidFlipped(npv_rate_low, npv_rate_high) ==
    Lt(Mul(npv_rate_low, npv_rate_high), Zero)

\* line 66: the NPVs at the two rates have the same sign
BracketInvalid(npv_rate_low, npv_rate_high) ==
    Lt(Zero, Mul(npv_rate_low, npv_rate_high))

\* line 109 without abs
IsValidSigned(npv) == Le(npv, NPV_PRECISION)

\* line 109 as !(abs(npv) > precision)
IsValidUnlessAbove(npv) == ~Lt(NPV_PRECISION, Abs(npv))

\* line 109: is_valid
IsValid(npv) == Le(Abs(npv), NPV_PRECISION)

\* what the caller keeps across a call of bisection
BisectionEnter(c) ==
    /\ call' = <<c>>
    /\ calls' = calls + 1
    /\ previous' = IF c.from = "result" THEN result ELSE <<>>
    /\ mids' = <<>>
    /\ UNCHANGED <<cash_flows, det, bounds>>

\* lines 60-78: the bracket is rejected
BisectionInvalid(c) ==
    LET rate_low == c.rate_low_guess
        rate_high == c.rate_high_guess
        npv_rate_low == pv(cash_flows, rate_low)
        npv_rate_high == pv(cash_flows, rate_high)
    IN  /\ pc = "idle"
        /\ BracketInvalid(npv_rate_low, npv_rate_high)
        /\ result' = <<IrrNew(rate_low, npv_rate_low, rate_high, npv_rate_high,
                              c.iteration_limit, 0, NaN, NaN, FALSE)>>
        /\ BisectionEnter(c)
        /\ UNCHANGED <<pc, bis>>

\* lines 60-83: the first midpoint
BisectionStart(c) ==
    LET rate_low == c.rate_low_guess
        rate_high == c.rate_high_guess
        npv_rate_low == pv(cash_flows, rate_low)
        npv_rate_high == pv(cash_flows, rate_high)
        irr == calculate(rate_low, rate_high)
    IN  /\ pc = "idle"
        /\ ~BracketInvalid(npv_rate_low, npv_rate_high)
        /\ bis' = <<[rate_low |-> rate_low, rate_high |-> rate_high,
                     npv_rate_low |-> npv_rate_low, npv_rate_high |-> npv_rate_high,
                     irr |-> irr, npv |-> pv(cash_flows, irr),
                     iterations_run |-> 0, precision |-> NPV_PRECISION]>>
        /\ pc' = "bisection"
        /\ result' = <<>>
        /\ BisectionEnter(c)

\* line 85 with <= for <
BisectionContinuesOneMore(b, iteration_limit) ==
    b.iterations_run <= iteration_limit /\ ~is_true(b.precision, b.npv)

\* line 85: the loop goes on
BisectionContinues(b, iteration_limit) ==
    b.iterations_run < iteration_limit /\ ~is_true(b.precision, b.npv)

\* lines 85-98 with line 96 before the bounds are replaced
BisectionIterateStaleMidpoint ==
    LET b == bis[1]
        high == Lt(Mul(b.npv_rate_low, b.npv), Zero)
        irr == calculate(b.rate_low, b.rate_high)
    IN  /\ pc = "bisection"
        /\ BisectionContinues(b, call[1].iteration_limit)
        /\ bis' = <<[b EXCEPT !.iterations_run = b.iterations_run + 1,
                              !.rate_low = IF high THEN b.rate_low ELSE b.irr,
                              !.npv_rate_low = IF high THEN b.npv_rate_low ELSE b.npv,
                              !.rate_high = IF high THEN b.irr ELSE b.rate_high,
                              !.npv_rate_high = IF high THEN b.npv ELSE b.npv_rate_high,
                              !.irr = irr,
                              !.npv = pv(cash_flows, irr)]>>
        /\ mids' = Append(mids, b.npv)
        /\ UNCHANGED <<cash_flows, pc, calls, call, det, bounds, result, previous>>

\* lines 85-98 without line 93: the low bound moves, its NPV stays
BisectionIterateKeepsLowNpv ==
    LET b == bis[1]
        high == Lt(Mul(b.npv_rate_low, b.npv), Zero)
        rate_low == IF high THEN b.rate_low ELSE b.irr
        rate_high == IF high THEN b.irr ELSE b.rate_high
        irr == calculate(rate_low, rate_high)
    IN  /\ pc = "bisection"
        /\ BisectionContinues(b, call[1].iteration_limit)
        /\ bis' = <<[b EXCEPT !.iterations_run = b.iterations_run + 1,
                              !.rate_low = rate_low,
                              !.rate_high = rate_high,
                              !.npv_rate_high = IF high THEN b.npv ELSE b.npv_rate_high,
                              !.irr = irr,
                              !.npv = pv(cash_flows, irr)]>>
        /\ mids' = Append(mids, b.npv)
        /\ UNCHANGED <<cash_flows, pc, calls, call, det, bounds, result, previous>>

\* lines 85-98: one bisection
BisectionIterate ==
    LET b == bis[1]
        high == Lt(Mul(b.npv_rate_low, b.npv), Zero)
        rate_low == IF high THEN b.rate_low ELSE b.irr
        rate_high == IF high THEN b.irr ELSE b.rate_high
        irr == calculate(rate_low, rate_high)
    IN  /\ pc = "bisection"
        /\ BisectionContinues(b, call[1].iteration_limit)
        /\ bis' = <<[b EXCEPT !.iterations_run = b.iterations_run + 1,
                              !.rate_low = rate_low,
                              !.npv_rate_low = IF high THEN b.npv_rate_low ELSE b.npv,
                              !.rate_high = rate_high,
                              !.npv_rate_high = IF high THEN b.npv ELSE b.npv_rate_high,
                              !.irr = irr,
                              !.npv = pv(cash_flows, irr)]>>
        /\ mids' = Append(mids, b.npv)
        /\ UNCHANGED <<cash_flows, pc, calls, call, det, bounds, result, previous>>

\* lines 85, 100-110: the loop is over
BisectionReturn ==
    LET b == bis[1]
    IN  /\ pc = "bisection"
        /\ ~BisectionContinues(b, call[1].iteration_limit)
        /\ result' = <<IrrNew(b.rate_low, b.npv_rate_low, b.rate_high, b.npv_rate_high,
                              call[1].iteration_limit, b.iterations_run, b.irr, b.npv,
                              IsValid(b.npv))>>
        /\ pc' = "idle"
        /\ bis' = <<>>
        /\ UNCHANGED <<cash_flows, calls, call, det, bounds, previous, mids>>

Next ==
    \/ \E g \in Rates, l \in Limits : DetermineGoodGuess(g, l)
    \/ \E g \in Rates, l \in Limits : DetermineStart(g, l)
    \/ DetermineFound
    \/ DetermineShift
    \/ DetermineExhausted
    \/ \E c \in BisectionCalls : BisectionInvalid(c)
    \/ \E c \in BisectionCalls : BisectionStart(c)
    \/ BisectionIterate
    \/ BisectionReturn

Spec == Init /\ [][Next]_vars

\* a call that has started runs on to its return: the functions are
\* synchronous and nothing suspends them; the caller need not call again
FairSpec ==
    /\ Spec
    /\ WF_vars(DetermineFound)
    /\ WF_vars(DetermineShift)
    /\ WF_vars(DetermineExhausted)
    /\ WF_vars(BisectionIterate)
    /\ WF_vars(BisectionReturn)

\* ------------------------------------------------------------------------
\* future_value.rs
\* ------------------------------------------------------------------------

\* fold(*present_value, |acc, x| acc * (1 + x)) over the first n rates
RECURSIVE FoldExpectedRates(_, _, _)
FoldExpectedRates(present, expected_rates, n) ==
    IF n = 0 THEN present
    ELSE Mul(FoldExpectedRates(present, expected_rates, n - 1),
             Add(One, expected_rates[n]))

\* line 56 with the closure acc * x
RECURSIVE FoldRawRates(_, _, _)
FoldRawRates(present, expected_rates, n) ==
    IF n = 0 THEN present
    ELSE Mul(FoldRawRates(present, expected_rates, n - 1), expected_rates[n])

from_pv_and_raw_rates(present, expected_rates) ==
    FoldRawRates(present, expected_rates, Len(expected_rates))

from_pv_and_expected_rates(present, expected_rates) ==
    FoldExpectedRates(present, expected_rates, Len(expected_rates))

\* ------------------------------------------------------------------------
\* The leaf functions called on their own: present_value,
\* from_cash_flows_and_discount_rate, from_pv_and_expected_rates,
\* midpoint::calculate and are_equal_enough::is_true.  The caller holds the
\* arguments of one call, makes it, and may call once more with the
\* arguments rearranged (the series scaled, the rates permuted, the two
\* operands swapped).
\* ------------------------------------------------------------------------

\* largest period passed to present_value
MaxPeriod == 2
\* longest sequence of expected rates
MaxRates == 3

\* smallest positive value of T
Tiny == Fin(1, TinyExponent)

\* magnitudes from every part of the range of T: subnormals, the tolerance,
\* neighbours of 1, values that need rounding, the top of the range
Magnitudes ==
    {Tiny, Fin(3, TinyExponent), Fin(5, TinyExponent + 1), Fin(3, TinyExponent + 2),
     NPV_PRECISION, Fin(1, -2), Div(One, FromInt(3)), Fin(1, -1),
     Sub(One, Div(Epsilon, Two)), One, Add(One, Epsilon), Fin(3, -1), Two,
     FromInt(3), Div(MaxValue, Two), Fin(1, MaxExponent), MaxValue, PosInf}

Floats == {Zero, NegZero, NaN} \cup Magnitudes \cup {Neg(x) : x \in Magnitudes}

\* discount rates passed to present_value
DiscountRates == Rates \cup {NaN, PosInf, NegInf}

\* factors a caller scales its series by
Scalars == {FromInt(-1), Two, Fin(1, -1), FromInt(3), Div(One, FromInt(3)), Zero}

\* present values and expected rates passed to from_pv_and_expected_rates
PresentValues == {FromInt(10), One, Div(One, FromInt(3)), MaxValue}
ExpectedRates == {Zero, One, Fin(1, -2), Div(One, FromInt(3)), FromInt(-1)}

\* the sequences over S of length at most n
RECURSIVE SeqsUpTo(_, _)
SeqsUpTo(S, n) ==
    IF n = 0 THEN {<<>>}
    ELSE LET shorter == SeqsUpTo(S, n - 1)
         IN  shorter \cup {Append(q, x) : q \in {t \in shorter : Len(t) = n - 1}, x \in S}

\* the rearrangements of a sequence
Rearrangements(q) ==
    LET n == Len(q)
    IN  {[i \in 1 .. n |-> q[p[i]]] :
           p \in {f \in [1 .. n -> 1 .. n] : \A i, j \in 1 .. n : f[i] = f[j] => i = j}}

\* the series with every cash flow multiplied by k
ScaleSeries(k, cfs) == [i \in 1 .. Len(cfs) |-> Mul(k, cfs[i])]

\* the calls a caller has in hand
LeafCalls ==
    {[fn |-> "from_cash_flows_and_discount_rate", discount_rate |-> r, from |-> "caller"] :
        r \in Rates}
    \cup {[fn |-> "present_value", cash_flow |-> cf, period |-> n, discount_rate |-> r,
           from |-> "caller"] : cf \in Floats, n \in 0 .. MaxPeriod, r \in DiscountRates}
    \cup {[fn |-> "from_pv_and_expected_rates", present_value |-> v, expected_rates |-> q,
           from |-> "caller"] : v \in PresentValues, q \in SeqsUpTo(ExpectedRates, MaxRates)}
    \cup {[fn |-> "calculate", a |-> a, c |-> c, from |-> "caller"] :
        a \in Floats, c \in Floats}
    \cup {[fn |-> "is_true", a |-> a, b |-> b, from |-> "caller"] :
        a \in Floats, b \in Floats}

LeafInit ==
    /\ call \in {<<c>> : c \in LeafCalls}
    /\ cash_flows \in IF call[1].fn = "from_cash_flows_and_discount_rate"
                      THEN CashFlowSeries ELSE {<<>>}
    /\ pc = "idle"
    /\ calls = 0
    /\ det = <<>>
    /\ bis = <<>>
    /\ bounds = <<>>
    /\ result = <<>>
    /\ previous = <<>>
    /\ mids = <<>>

\* the call in hand is made; its value is kept in result
LeafReturn(fn, value) ==
    /\ calls = 0
    /\ call[1].fn = fn
    /\ result' = <<value>>
    /\ calls' = 1
    /\ UNCHANGED <<cash_flows, pc, call, det, bis, bounds, previous, mids>>

\* a second call with rearranged arguments; the first value is kept in previous
LeafReturnAgain(fn, c, value) ==
    /\ calls = 1
    /\ call[1].fn = fn
    /\ previous' = result
    /\ result' = <<value>>
    /\ call' = <<c>>
    /\ calls' = 2
    /\ UNCHANGED <<pc, det, bis, bounds, mids>>

CallNetPresentValue ==
    LeafReturn("from_cash_flows_and_discount_rate",
               from_cash_flows_and_discount_rate(cash_flows, call[1].discount_rate))

\* the caller scales its series by k and evaluates it at the same rate
CallNetPresentValueScaled(k) ==
    /\ LeafReturnAgain("from_cash_flows_and_discount_rate",
                       [call[1] EXCEPT !.from = <<"scaled", k, cash_flows>>],
                       from_cash_flows_and_discount_rate(ScaleSeries(k, cash_flows),
                                                         call[1].discount_rate))
    /\ cash_flows' = ScaleSeries(k, cash_flows)

CallPresentValue ==
    LeafReturn("present_value",
               present_value(call[1].cash_flow, call[1].period, call[1].discount_rate))

CallFutureValue ==
    LeafReturn("from_pv_and_expected_rates",
               from_pv_and_expected_rates(call[1].present_value, call[1].expected_rates))

\* the caller passes the same rates in another order
CallFutureValuePermuted ==
    /\ call[1].fn = "from_pv_and_expected_rates"
    /\ \E q \in Rearrangements(call[1].expected_rates) :
           LeafReturnAgain("from_pv_and_expected_rates",
                           [call[1] EXCEPT !.expected_rates = q,
                                           !.from = <<"permuted", call[1].expected_rates>>],
                           from_pv_and_expected_rates(call[1].present_value, q))
    /\ UNCHANGED cash_flows

CallMidpoint ==
    LeafReturn("calculate", calculate(call[1].a, call[1].c))

\* the caller passes the two operands the other way round
CallMidpointSwapped ==
    /\ LeafReturnAgain("calculate",
                       [call[1] EXCEPT !.a = call[1].c, !.c = call[1].a,
                                       !.from = "swapped"],
                       calculate(call[1].c, call[1].a))
    /\ UNCHANGED cash_flows

CallIsTrue ==
    LeafReturn("is_true", is_true(call[1].a, call[1].b))

LeafNext ==
    \/ CallNetPresentValue
    \/ \E k \in Scalars : CallNetPresentValueScaled(k)
    \/ CallPresentValue
    \/ CallFutureValue
    \/ CallFutureValuePermuted
    \/ CallMidpoint
    \/ CallMidpointSwapped
    \/ CallIsTrue

LeafSpec == LeafInit /\ [][LeafNext]_vars

\* ------------------------------------------------------------------------
\* A caller that calls determine and bisection with its own arguments, keeps
\* every record it got back, and repeats a call it has made before, directly
\* or after another call.  The entry steps are those of DetermineGoodGuess,
\* DetermineStart, BisectionInvalid and BisectionStart; the loops are the
\* actions above.  Here previous is the caller's list of earlier calls, each
\* with the record it returned.
\* ------------------------------------------------------------------------

RepeatRates == {Zero, Fin(1, -2), One}
RepeatLimits == {0, MaxLimit}

RepeatCalls ==
    {DetermineCall(g, l) : g \in RepeatRates, l \in RepeatLimits}
    \cup {[fn |-> "bisection", rate_low_guess |-> lo, rate_high_guess |-> hi,
           iteration_limit |-> l, from |-> "caller"] :
            lo \in RepeatRates, hi \in RepeatRates, l \in RepeatLimits}

\* the record the last call returned
Returned == IF call[1].fn = "determine" THEN bounds[1] ELSE result[1]

\* the caller may make any call first and second, and then repeats one
CallerMayCall(c) ==
    /\ pc = "idle"
    /\ calls < MaxCalls
    /\ IF calls < 2 THEN TRUE
       ELSE call[1] = c \/ \E i \in 1 .. Len(previous) : previous[i].call = c

\* what the caller keeps across a call
CallerEnter(c) ==
    /\ call' = <<c>>
    /\ calls' = calls + 1
    /\ previous' = IF calls = 0 THEN <<>>
                   ELSE Append(previous, [call |-> call[1], returned |-> Returned])
    /\ UNCHANGED cash_flows

\* initial_bounds.rs lines 14-25: the guess is already a root
CallDetermineGoodGuess(c) ==
    LET rate_guess == c.rate_low_guess
        npv_rate_guess == pv(cash_flows, rate_guess)
    IN  /\ CallerMayCall(c)
        /\ c.fn = "determine"
        /\ GoodGuess(pv(cash_flows, rate_guess))
        /\ bounds' = <<InitialBoundsNew(rate_guess, npv_rate_guess, rate_guess,
                                        npv_rate_guess, c.iteration_limit, 0, TRUE)>>
        /\ CallerEnter(c)
        /\ UNCHANGED <<pc, det, bis, result, mids>>

\* initial_bounds.rs lines 14-33 with iterations_run kept from one call to the
\* next instead of starting at 0
CallDetermineStartCounterKept(c) ==
    LET rate_guess == c.rate_low_guess
        epsilon_multiple == FromInt(10)
        rate_low == Sub(rate_guess, Mul(epsilon_multiple, Epsilon))
        rate_high == Add(rate_guess, Mul(epsilon_multiple, Epsilon))
        npv_rate_low == pv(cash_flows, rate_low)
        npv_rate_high == pv(cash_flows, rate_high)
    IN  /\ CallerMayCall(c)
        /\ c.fn = "determine"
        /\ ~GoodGuess(pv(cash_flows, rate_guess))
        /\ det' = <<[epsilon_multiple |-> epsilon_multiple,
                     rate_low |-> rate_low, rate_high |-> rate_high,
                     npv_rate_low |-> npv_rate_low, npv_rate_high |-> npv_rate_high,
                     iterations_run |-> IF calls = 0 \/ bounds = <<>> THEN 0
                                        ELSE bounds[1].iterations_run,
                     go_low |-> Lt(Abs(npv_rate_low), Abs(npv_rate_high))]>>
        /\ pc' = "determine"
        /\ bounds' = <<>>
        /\ CallerEnter(c)
        /\ UNCHANGED <<bis, result, mids>>

\* initial_bounds.rs lines 14-33: the first bracket around the guess
CallDetermineStart(c) ==
    LET rate_guess == c.rate_low_guess
        epsilon_multiple == FromInt(10)
        rate_low == Sub(rate_guess, Mul(epsilon_multiple, Epsilon))
        rate_high == Add(rate_guess, Mul(epsilon_multiple, Epsilon))
        npv_rate_low == pv(cash_flows, rate_low)
        npv_rate_high == pv(cash_flows, rate_high)
    IN  /\ CallerMayCall(c)
        /\ c.fn = "determine"
        /\ ~GoodGuess(pv(cash_flows, rate_guess))
        /\ det' = <<[epsilon_multiple |-> epsilon_multiple,
                     rate_low |-> rate_low, rate_high |-> rate_high,
                     npv_rate_low |-> npv_rate_low, npv_rate_high |-> npv_rate_high,
                     iterations_run |-> 0,
                     go_low |-> Lt(Abs(npv_rate_low), Abs(npv_rate_high))]>>
        /\ pc' = "determine"
        /\ bounds' = <<>>
        /\ CallerEnter(c)
        /\ UNCHANGED <<bis, result, mids>>

\* irr.rs lines 60-78: the bracket is rejected
CallBisectionInvalid(c) ==
    LET rate_low == c.rate_low_guess
        rate_high == c.rate_high_guess
        npv_rate_low == pv(cash_flows, rate_low)
        npv_rate_high == pv(cash_flows, rate_high)
    IN  /\ CallerMayCall(c)
        /\ c.fn = "bisection"
        /\ BracketInvalid(npv_rate_low, npv_rate_high)
        /\ result' = <<IrrNew(rate_low, npv_rate_low, rate_high, npv_rate_high,
                              c.iteration_limit, 0, NaN, NaN, FALSE)>>
        /\ mids' = <<>>
        /\ CallerEnter(c)
        /\ UNCHANGED <<pc, det, bis, bounds>>

\* irr.rs lines 60-83: the first midpoint
CallBisectionStart(c) ==
    LET rate_low == c.rate_low_guess
        rate_high == c.rate_high_guess
        npv_rate_low == pv(cash_flows, rate_low)
        npv_rate_high == pv(cash_flows, rate_high)
        irr == calculate(rate_low, rate_high)
    IN  /\ CallerMayCall(c)
        /\ c.fn = "bisection"
        /\ ~BracketInvalid(npv_rate_low, npv_rate_high)
        /\ bis' = <<[rate_low |-> rate_low, rate_high |-> rate_high,
                     npv_rate_low |-> npv_rate_low, npv_rate_high |-> npv_rate_high,
                     irr |-> irr, npv |-> pv(cash_flows, irr),
                     iterations_run |-> 0, precision |-> NPV_PRECISION]>>
        /\ pc' = "bisection"
        /\ result' = <<>>
        /\ mids' = <<>>
        /\ CallerEnter(c)
        /\ UNCHANGED <<det, bounds>>

RepeatNext ==
    \/ \E c \in RepeatCalls : CallDetermineGoodGuess(c)
    \/ \E c \in RepeatCalls : CallDetermineStart(c)
    \/ DetermineFound
    \/ DetermineShift
    \/ DetermineExhausted
    \/ \E c \in RepeatCalls : CallBisectionInvalid(c)
    \/ \E c \in RepeatCalls : CallBisectionStart(c)
    \/ BisectionIterate
    \/ BisectionReturn

RepeatSpec == Init /\ [][RepeatNext]_vars

\* ------------------------------------------------------------------------
\* structs::irr::Irr and structs::initial_bounds::InitialBounds on their
\* own: a caller constructs one record with new(...) and then reads it
\* through its accessors and formats it.  call holds the arguments passed to
\* new, result the Irr, bounds the InitialBounds, mids the last accessor
\* called with the value it returned, previous the last formatted output.
\* ------------------------------------------------------------------------

\* structs/irr.rs lines 129-163
rate_low(self) == self.rate_low
get_irr(self) == self.irr
get_npv(self) == self.npv

\* structs/initial_bounds.rs lines 58-60
get_rate_low(self) == self.rate_low

\* the accessors the two structs have in common
get_npv_rate_low(self) == self.npv_rate_low
get_rate_high(self) == self.rate_high
\* get_npv_rate_high returning the field of the low rate
get_npv_rate_high_from_low(self) == self.npv_rate_low

get_npv_rate_high(self) == self.npv_rate_high
get_iteration_limit(self) == self.iteration_limit
get_iterations_run(self) == self.iterations_run
is_valid(self) == self.is_valid

IrrAccessors ==
    {"rate_low", "get_npv_rate_low", "get_rate_high", "get_npv_rate_high",
     "get_iteration_limit", "get_iterations_run", "get_irr", "get_npv", "is_valid"}

InitialBoundsAccessors ==
    {"get_rate_low", "get_npv_rate_low", "get_rate_high", "get_npv_rate_high",
     "get_iteration_limit", "get_iterations_run", "is_valid"}

\* the call self.<accessor>()
Access(self, accessor) ==
    CASE accessor = "rate_low" -> rate_low(self)
      [] accessor = "get_rate_low" -> get_rate_low(self)
      [] accessor = "get_npv_rate_low" -> get_npv_rate_low(self)
      [] accessor = "get_rate_high" -> get_rate_high(self)
      [] accessor = "get_npv_rate_high" -> get_npv_rate_high(self)
      [] accessor = "get_iteration_limit" -> get_iteration_limit(self)
      [] accessor = "get_iterations_run" -> get_iterations_run(self)
      [] accessor = "get_irr" -> get_irr(self)
      [] accessor = "get_npv" -> get_npv(self)
      [] accessor = "is_valid" -> is_valid(self)

\* operations a caller performs on the record it constructed
MaxUses == 2

\* the arguments a caller passes to Irr::new and InitialBounds::new
IrrNewCalls ==
    [fn : {"Irr::new"},
     rate_low : {One, NaN}, npv_rate_low : {Two, NaN},
     rate_high : {FromInt(3)}, npv_rate_high : {FromInt(-1)},
     iteration_limit : {-1, MaxLimit}, iterations_run : {0, MaxLimit},
     irr : {Fin(1, -1), NaN}, npv : {Fin(1, -2), Fin(-5, -16), NegZero},
     is_valid : BOOLEAN]

InitialBoundsNewCalls ==
    [fn : {"InitialBounds::new"},
     rate_low : {One, NaN}, npv_rate_low : {Two, NaN},
     rate_high : {FromInt(3)}, npv_rate_high : {FromInt(-1)},
     iteration_limit : {-1, MaxLimit}, iterations_run : {0, MaxLimit},
     is_valid : BOOLEAN]

RecordInit ==
    /\ call \in {<<c>> : c \in IrrNewCalls \cup InitialBoundsNewCalls}
    /\ cash_flows = <<>>
    /\ pc = "idle"
    /\ calls = 0
    /\ det = <<>>
    /\ bis = <<>>
    /\ bounds = <<>>
    /\ result = <<>>
    /\ previous = <<>>
    /\ mids = <<>>

\* structs/irr.rs lines 105-127
ConstructIrr ==
    LET c == call[1]
    IN  /\ c.fn = "Irr::new"
        /\ result = <<>>
        /\ result' = <<IrrNew(c.rate_low, c.npv_rate_low, c.rate_high, c.npv_rate_high,
                              c.iteration_limit, c.iterations_run, c.irr, c.npv,
                              c.is_valid)>>
        /\ UNCHANGED <<cash_flows, pc, calls, call, det, bis, bounds, previous, mids>>

\* structs/initial_bounds.rs lines 38-56
ConstructInitialBounds ==
    LET c == call[1]
    IN  /\ c.fn = "InitialBounds::new"
        /\ bounds = <<>>
        /\ bounds' = <<InitialBoundsNew(c.rate_low, c.npv_rate_low, c.rate_high,
                                        c.npv_rate_high, c.iteration_limit,
                                        c.iterations_run, c.is_valid)>>
        /\ UNCHANGED <<cash_flows, pc, calls, call, det, bis, result, previous, mids>>

\* an accessor of the Irr is called: it takes &self and returns a copy
ReadIrr(accessor) ==
    /\ result # <<>>
    /\ calls < MaxUses
    /\ mids' = <<[accessor |-> accessor, value |-> Access(result[1], accessor)]>>
    /\ calls' = calls + 1
    /\ UNCHANGED <<cash_flows, pc, call, det, bis, bounds, result, previous>>

\* an accessor of the InitialBounds is called
ReadInitialBounds(accessor) ==
    /\ bounds # <<>>
    /\ calls < MaxUses
    /\ mids' = <<[accessor |-> accessor, value |-> Access(bounds[1], accessor)]>>
    /\ calls' = calls + 1
    /\ UNCHANGED <<cash_flows, pc, call, det, bis, bounds, result, previous>>

\* Formatted values are texts, sequences of characters.
DigitChar(d) == <<"0", "1", "2", "3", "4", "5", "6", "7", "8", "9">>[d + 1]

\* the decimal digits of n >= 0
RECURSIVE Digits(_)
Digits(n) == IF n < 10 THEN <<DigitChar(n)>> ELSE Digits(n \div 10) \o <<DigitChar(n % 10)>>

RECURSIVE Pow5(_)
Pow5(n) == IF n <= 0 THEN 1 ELSE 5 * Pow5(n - 1)

\* c zeros
Zeros(c) == [i \in 1 .. c |-> "0"]

\* the significand of a finite nonzero v as an integer of up to Precision
\* bits: |v| = FullMantissa(v) * 2^UlpExponent[TopExp(v)]
FullMantissa(v) == AbsInt(v.m) * Pow2(v.e - UlpExponent[TopExp(v)])

\* The values that read back as v lie between the midpoints to v's
\* neighbours.  In quarters of v's unit in the last place: |v| is at 4 * M,
\* the upper midpoint at 4 * M + 2, the lower one at 4 * M - 2, or at
\* 4 * M - 1 when v is a normal power of two (core's decode takes the
\* nearer bound for the smallest normal value too, whose lower neighbour is
\* a whole unit away).  The midpoints read back as v when M is even.
RoundTripLow(v) ==
    IF FullMantissa(v) = Pow2(Precision - 1)
    THEN 4 * FullMantissa(v) - 1
    ELSE 4 * FullMantissa(v) - 2
RoundTripHigh(v) == 4 * FullMantissa(v) + 2

\* the multiple n * 10^k nearest |v| on either side that reads back as v, as
\* <<n, k>>, for the largest k that has one: the shortest digits.  With
\* 2^s the quarter unit, |v| / 10^k is 4 * M * P / Q; of the multiples below
\* and above, the one above is taken when only it reads back as v or when it
\* is not the farther one.
RECURSIVE ShortestFrom(_, _)
ShortestFrom(v, k) ==
    LET s == UlpExponent[TopExp(v)] - 2
        P == Pow2(s - k) * Pow5(0 - k)
        Q == Pow2(k - s) * Pow5(k)
        inclusive == FullMantissa(v) % 2 = 0
        below == (4 * FullMantissa(v) * P) \div Q
        rest == (4 * FullMantissa(v) * P) % Q
        above == IF rest = 0 THEN below ELSE below + 1
        down == /\ below >= 1
                /\ IF inclusive THEN below * Q >= RoundTripLow(v) * P
                   ELSE below * Q > RoundTripLow(v) * P
        up == IF inclusive THEN above * Q <= RoundTripHigh(v) * P
              ELSE above * Q < RoundTripHigh(v) * P
    IN  IF down \/ up
        THEN (IF up /\ (~down \/ 2 * rest >= Q) THEN <<above, k>> ELSE <<below, k>>)
        ELSE ShortestFrom(v, k - 1)

\* the shortest decimal digits that read back as the finite nonzero v, as
\* <<n, k>> for n * 10^k; the search starts at the power of ten above the
\* upper midpoint
Shortest(v) ==
    LET s == UlpExponent[TopExp(v)] - 2
        whole == IF s >= 0 THEN RoundTripHigh(v) * Pow2(s)
                 ELSE RoundTripHigh(v) \div Pow2(0 - s)
    IN  ShortestFrom(v, Len(Digits(whole)))

\* n * 10^k without an exponent, with ".0" for a whole number when a
\* fraction is asked for
PlainText(n, k, fraction) ==
    IF k >= 0 THEN Digits(n) \o Zeros(k) \o (IF fraction THEN <<".", "0">> ELSE <<>>)
    ELSE IF Len(Digits(n)) > 0 - k
    THEN SubSeq(Digits(n), 1, Len(Digits(n)) + k) \o <<".">>
         \o SubSeq(Digits(n), Len(Digits(n)) + k + 1, Len(Digits(n)))
    ELSE <<"0", ".">> \o Zeros(0 - k - Len(Digits(n))) \o Digits(n)

\* n * 10^k with one digit before the point and the exponent after "e"
ExponentText(n, k) ==
    <<Digits(n)[1]>>
    \o (IF Len(Digits(n)) > 1 THEN <<".">> \o Tail(Digits(n)) ELSE <<>>)
    \o <<"e">>
    \o (IF k + Len(Digits(n)) - 1 < 0 THEN <<"-">> ELSE <<>>)
    \o Digits(AbsInt(k + Len(Digits(n)) - 1))

SignText(v) == IF SignOf(v) < 0 THEN <<"-">> ELSE <<>>

\* a finite value of T in decimal notation: the shortest digits that read
\* back as the same value of T, without an exponent
DecimalText(v, fraction) ==
    IF v.m = 0 THEN SignText(v) \o (IF fraction THEN <<"0", ".", "0">> ELSE <<"0">>)
    ELSE SignText(v) \o PlainText(Shortest(v)[1], Shortest(v)[2], fraction)

\* the literals 1e-4 and 1e16 as values of T (1e16 is above every finite
\* value of a T with MaxExponent below 53)
DebugSmall == Round(1, 10000, 0)
DebugLarge == IF MaxExponent < 53 THEN PosInf ELSE Round(Pow5(16), 1, 16)

\* {:?} of a T: the shortest digits, with an exponent for a nonzero
\* magnitude below 1e-4 or from 1e16 on, and else with at least one digit
\* after the point
FloatDebug(v) ==
    IF IsNaN(v) THEN <<"N", "a", "N">>
    ELSE IF IsInf(v) THEN (IF v.m < 0 THEN <<"-", "i", "n", "f">> ELSE <<"i", "n", "f">>)
    ELSE IF v.m # 0 /\ (Lt(Abs(v), DebugSmall) \/ Le(DebugLarge, Abs(v)))
    THEN SignText(v) \o ExponentText(Shortest(v)[1], Shortest(v)[2])
    ELSE DecimalText(v, TRUE)

\* {} of a T: the shortest digits, never with an exponent
FloatDisplay(v) ==
    IF IsNaN(v) THEN <<"N", "a", "N">>
    ELSE IF IsInf(v) THEN (IF v.m < 0 THEN <<"-", "i", "n", "f">> ELSE <<"i", "n", "f">>)
    ELSE DecimalText(v, FALSE)

\* {} and {:?} of an i16 and of a bool
IntText(n) == (IF n < 0 THEN <<"-">> ELSE <<>>) \o Digits(AbsInt(n))
BoolText(b) == IF b THEN <<"t", "r", "u", "e">> ELSE <<"f", "a", "l", "s", "e">>

\* structs/irr.rs lines 170-182: debug_struct("Irr") with its fields in order,
\* each the name given and the {:?} text of the value given
IrrDebugFmt(self) ==
    [name |-> "Irr",
     fields |-> << <<"rate_low", FloatDebug(rate_low(self))>>,
                   <<"npv_rate_low", FloatDebug(get_npv_rate_low(self))>>,
                   <<"rate_high", FloatDebug(get_rate_high(self))>>,
                   <<"npv_rate_high", FloatDebug(get_npv_rate_high(self))>>,
                   <<"iteration_limit", FloatDebug(get_irr(self))>>,
                   <<"iterations_run", FloatDebug(get_npv(self))>>,
                   <<"irr", FloatDebug(get_irr(self))>>,
                   <<"npv", FloatDebug(get_npv(self))>>,
                   <<"is_valid", BoolText(is_valid(self))>> >>]

\* structs/irr.rs lines 189-203: the lines of the format string, each its
\* label and the {} text of the argument
IrrDisplayFmt(self) ==
    << <<"rate_low", FloatDisplay(rate_low(self))>>,
       <<"npv_rate_low", FloatDisplay(get_npv_rate_low(self))>>,
       <<"rate_high", FloatDisplay(get_rate_high(self))>>,
       <<"npv_rate_high", FloatDisplay(get_npv_rate_high(self))>>,
       <<"iteration_limit", IntText(get_iteration_limit(self))>>,
       <<" iterations_run", IntText(get_iterations_run(self))>>,
       <<"irr", FloatDisplay(get_irr(self))>>,
       <<" npv", FloatDisplay(get_npv(self))>>,
       <<"is_valid", BoolText(is_valid(self))>> >>

\* structs/initial_bounds.rs lines 91-101
InitialBoundsDebugFmt(self) ==
    [name |-> "InitialBounds",
     fields |-> << <<"rate_low", FloatDebug(get_rate_low(self))>>,
                   <<"npv_rate_low", FloatDebug(get_npv_rate_low(self))>>,
                   <<"rate_high", FloatDebug(get_rate_high(self))>>,
                   <<"npv_rate_high", FloatDebug(get_npv_rate_high(self))>>,
                   <<"iteration_limit", IntText(get_iteration_limit(self))>>,
                   <<"iterations_run", IntText(get_iterations_run(self))>>,
                   <<"is_valid", BoolText(is_valid(self))>> >>]

\* structs/initial_bounds.rs lines 108-120
InitialBoundsDisplayFmt(self) ==
    << <<"rate_low", FloatDisplay(get_rate_low(self))>>,
       <<"npv_rate_low", FloatDisplay(get_npv_rate_low(self))>>,
       <<"rate_high", FloatDisplay(get_rate_high(self))>>,
       <<"npv_rate_high", FloatDisplay(get_npv_rate_high(self))>>,
       <<"iteration_limit", IntText(get_iteration_limit(self))>>,
       <<" iterations_run", IntText(get_iterations_run(self))>>,
       <<"is_valid", BoolText(is_valid(self))>> >>

\* the record is formatted; the output is kept in previous
Format(record, trait, output) ==
    /\ record # <<>>
    /\ calls < MaxUses
    /\ previous' = <<[trait |-> trait, output |-> output]>>
    /\ calls' = calls + 1
    /\ UNCHANGED <<cash_flows, pc, call, det, bis, bounds, result, mids>>

DebugIrr == result # <<>> /\ Format(result, "Debug", IrrDebugFmt(result[1]))
DisplayIrr == result # <<>> /\ Format(result, "Display", IrrDisplayFmt(result[1]))
DebugInitialBounds ==
    bounds # <<>> /\ Format(bounds, "Debug", InitialBoundsDebugFmt(bounds[1]))
DisplayInitialBounds ==
    bounds # <<>> /\ Format(bounds, "Display", InitialBoundsDisplayFmt(bounds[1]))

RecordNext ==
    \/ ConstructIrr
    \/ ConstructInitialBounds
    \/ \E accessor \in IrrAccessors : ReadIrr(accessor)
    \/ \E accessor \in InitialBoundsAccessors : ReadInitialBounds(accessor)
    \/ DebugIrr
    \/ DisplayIrr
    \/ DebugInitialBounds
    \/ DisplayInitialBounds

RecordSpec == RecordInit /\ [][RecordNext]_vars

\* ------------------------------------------------------------------------
\* Properties
\* ------------------------------------------------------------------------

\* a call of bisection has returned
BisectionReturned == pc = "idle" /\ call # <<>> /\ call[1].fn = "bisection"

\* a call of determine has returned
DetermineReturned == pc = "idle" /\ call # <<>> /\ call[1].fn = "determine"

\* the NPVs at the rates the caller passed to bisection
NpvLowGuess == pv(cash_flows, call[1].rate_low_guess)
NpvHighGuess == pv(cash_flows, call[1].rate_high_guess)

\* the last call of bisection took the return of lines 66-78
RejectedAtEntry == Lt(Zero, Mul(NpvLowGuess, NpvHighGuess))

\* the last call had arguments of the ordinary kind: a series with at least
\* one cash flow and rates above -1, the low one not above the high one
OrdinaryArguments ==
    /\ Len(cash_flows) > 0
    /\ Lt(FromInt(-1), call[1].rate_low_guess)
    /\ Le(call[1].rate_low_guess, call[1].rate_high_guess)

\* C1: if NPV(rate_low_guess) * NPV(rate_high_guess) > 0, bisection returns
\* is_valid = false, iterations_run = 0, irr = NaN, npv = NaN, with the
\* caller's rates, the NPVs at them and the caller's iteration_limit.
C1_InvalidBracketRecord ==
    (BisectionReturned /\ RejectedAtEntry) =>
        /\ result[1].is_valid = FALSE
        /\ result[1].iterations_run = 0
        /\ IsNaN(result[1].irr)
        /\ IsNaN(result[1].npv)
        /\ result[1].rate_low = call[1].rate_low_guess
        /\ result[1].rate_high = call[1].rate_high_guess
        /\ result[1].npv_rate_low = NpvLowGuess
        /\ result[1].npv_rate_high = NpvHighGuess
        /\ result[1].iteration_limit = call[1].iteration_limit

C1_Witness ==
    /\ BisectionReturned
    /\ RejectedAtEntry
    /\ call[1].iteration_limit = MaxLimit
    /\ call[1].rate_low_guess # call[1].rate_high_guess
    /\ IsNaN(result[1].irr)

\* C2: when bisection does not reject the bracket, the returned npv is the
\* NPV at the returned irr and is_valid is true exactly when
\* |npv| <= NPV_PRECISION, however the loop ended; so a valid result has
\* |NPV(irr)| <= NPV_PRECISION.
C2_NpvOfIrrDecidesValidity ==
    (BisectionReturned /\ ~RejectedAtEntry) =>
        /\ result[1].npv = pv(cash_flows, result[1].irr)
        /\ result[1].is_valid = Le(Abs(result[1].npv), NPV_PRECISION)
        /\ result[1].is_valid => Le(Abs(pv(cash_flows, result[1].irr)), NPV_PRECISION)

C2_Witness ==
    /\ BisectionReturned
    /\ ~RejectedAtEntry
    /\ result[1].is_valid
    /\ result[1].iterations_run >= 1
    /\ result[1].iterations_run < result[1].iteration_limit
    /\ result[1].npv # Zero

\* C3: once a midpoint with |NPV| <= NPV_PRECISION has been computed,
\* bisection runs no further iteration: no midpoint before the returned one
\* had an NPV within the tolerance.  Stated for ordinary arguments and a
\* budget of at least one iteration.
C3_StopsWithinTolerance ==
    (BisectionReturned /\ OrdinaryArguments /\ call[1].iteration_limit >= 1) =>
        \A i \in 1 .. Len(mids) : ~Le(Abs(mids[i]), NPV_PRECISION)

\* C4: every call of determine and of bisection terminates: a call that
\* has entered its loop returns.
C4_Terminates == (pc # "idle") ~> (pc = "idle")

C4_Witness ==
    /\ BisectionReturned
    /\ call[1].from = "bounds"
    /\ bounds[1].iterations_run >= 1
    /\ result[1].iterations_run = MaxLimit

\* C5 as stated: the record bisection returns has
\* iterations_run <= iteration_limit, for every iteration_limit.  Stated
\* for ordinary arguments.
C5_Original ==
    (BisectionReturned /\ OrdinaryArguments) =>
        result[1].iterations_run <= result[1].iteration_limit

\* C5 amended: iterations_run <= iteration_limit when iteration_limit >= 0,
\* and iterations_run = 0 when iteration_limit is negative.
C5_IterationsWithinBudget ==
    BisectionReturned =>
        /\ result[1].iterations_run >= 0
        /\ result[1].iteration_limit >= 0 =>
               result[1].iterations_run <= result[1].iteration_limit
        /\ result[1].iteration_limit < 0 => result[1].iterations_run = 0

C5_Witness ==
    /\ BisectionReturned
    /\ call[1].from = "caller"
    /\ ~result[1].is_valid
    /\ result[1].iteration_limit = MaxLimit
    /\ result[1].iterations_run = MaxLimit

\* C6: an invalid result of bisection with iterations_run = 0 has irr = NaN,
\* and any other invalid result has iterations_run = iteration_limit.
\* Stated for ordinary arguments and a budget of at least one iteration.
C6_InvalidIsRejectedOrExhausted ==
    (BisectionReturned /\ ~result[1].is_valid
        /\ OrdinaryArguments /\ call[1].iteration_limit >= 1) =>
        IF result[1].iterations_run = 0
        THEN IsNaN(result[1].irr)
        ELSE result[1].iterations_run = result[1].iteration_limit

\* C7 as stated: bisection called again with the returned bounds and the
\* same iteration_limit returns an irr within NPV_PRECISION of the first.
\* Stated for ordinary arguments.
C7_Original ==
    (BisectionReturned /\ call[1].from = "result" /\ OrdinaryArguments
        /\ ~IsNaN(previous[1].irr) /\ ~IsNaN(result[1].irr)) =>
        Le(Abs(Sub(result[1].irr, previous[1].irr)), NPV_PRECISION)

\* the first call neither rejected its bracket nor used up a positive budget
FirstCallStoppedEarly ==
    /\ ~IsNaN(previous[1].irr)
    /\ \/ previous[1].iterations_run < previous[1].iteration_limit
       \/ previous[1].iteration_limit <= 0

\* C7 amended: the second call either rejects the returned bounds or takes
\* the first call's irr as its first midpoint; it then returns that irr
\* whenever it runs no iteration, and it runs none when the first call
\* stopped before its budget was used up or the budget is not positive.
C7_SecondCallStartsAtFirstIrr ==
    /\ (pc = "bisection" /\ call[1].from = "result" /\ bis[1].iterations_run = 0) =>
           bis[1].irr = previous[1].irr
    /\ (BisectionReturned /\ call[1].from = "result" /\ ~RejectedAtEntry
           /\ result[1].iterations_run = 0) =>
           result[1].irr = previous[1].irr
    /\ (BisectionReturned /\ call[1].from = "result" /\ ~RejectedAtEntry
           /\ FirstCallStoppedEarly) =>
           /\ result[1].iterations_run = 0
           /\ result[1].irr = previous[1].irr

C7_Witness ==
    /\ BisectionReturned
    /\ call[1].from = "result"
    /\ OrdinaryArguments
    /\ previous[1].iterations_run >= 1
    /\ previous[1].iterations_run < previous[1].iteration_limit
    /\ result[1].iterations_run = 0
    /\ result[1].irr = previous[1].irr
    /\ result[1].iteration_limit >= 1

\* C8: the bounds of a valid InitialBounds, passed to bisection with the
\* same cash flows, are never rejected: the NPVs at them have a product
\* <= 0 and the irr is not NaN.  Stated for ordinary arguments and a
\* budget of at least one iteration.
C8_ValidBoundsAreAccepted ==
    (BisectionReturned /\ call[1].from = "bounds"
        /\ OrdinaryArguments /\ call[1].iteration_limit >= 1) =>
        /\ Le(Mul(NpvLowGuess, NpvHighGuess), Zero)
        /\ ~IsNaN(result[1].irr)

\* C9: if |NPV(rate_guess)| < NPV_PRECISION, determine returns, for every
\* iteration_limit, rate_low = rate_high = rate_guess, both NPVs equal to
\* NPV(rate_guess), iterations_run = 0 and is_valid = true.
C9_GoodGuessRecord ==
    (DetermineReturned
        /\ Lt(Abs(pv(cash_flows, call[1].rate_low_guess)), NPV_PRECISION)) =>
        bounds[1] = [rate_low |-> call[1].rate_low_guess,
                     npv_rate_low |-> pv(cash_flows, call[1].rate_low_guess),
                     rate_high |-> call[1].rate_low_guess,
                     npv_rate_high |-> pv(cash_flows, call[1].rate_low_guess),
                     iteration_limit |-> call[1].iteration_limit,
                     iterations_run |-> 0,
                     is_valid |-> TRUE]

C9_Witness ==
    /\ DetermineReturned
    /\ call[1].iteration_limit = 0
    /\ bounds[1].is_valid
    /\ bounds[1].rate_low = bounds[1].rate_high
    /\ bounds[1].npv_rate_low = HalfPrecision

\* C10: a valid InitialBounds has npv_rate_low * npv_rate_high <= 0.
\* Stated for ordinary arguments and a budget of at least one iteration.
C10_ValidBoundsStraddle ==
    (DetermineReturned /\ bounds[1].is_valid
        /\ OrdinaryArguments /\ call[1].iteration_limit >= 1) =>
        Le(Mul(bounds[1].npv_rate_low, bounds[1].npv_rate_high), Zero)

\* the product of the NPVs of the record determine returned
BoundsProduct == Mul(bounds[1].npv_rate_low, bounds[1].npv_rate_high)

\* C11: every record of determine with is_valid = false has
\* npv_rate_low * npv_rate_high > 0, and is_valid = true holds exactly when
\* the product is <= 0 or rate_low = rate_high.  Stated for ordinary
\* arguments, a budget of at least one iteration and a product that is
\* not NaN.
C11_InvalidMeansSameSign ==
    (DetermineReturned /\ OrdinaryArguments /\ call[1].iteration_limit >= 1
        /\ ~IsNaN(BoundsProduct)) =>
        /\ ~bounds[1].is_valid => Lt(Zero, BoundsProduct)
        /\ bounds[1].is_valid =
               (Le(BoundsProduct, Zero) \/ bounds[1].rate_low = bounds[1].rate_high)

\* C12 as stated: a record of determine with is_valid = false has
\* iterations_run = iteration_limit, for every iteration_limit.  Stated for
\* ordinary arguments.
C12_Original ==
    (DetermineReturned /\ ~bounds[1].is_valid /\ OrdinaryArguments) =>
        bounds[1].iterations_run = bounds[1].iteration_limit

\* C12 amended: a record of determine with is_valid = false has
\* iterations_run = iteration_limit when iteration_limit >= 0, and
\* iterations_run = 0 when iteration_limit is negative.
C12_InvalidUsedTheBudget ==
    (DetermineReturned /\ ~bounds[1].is_valid) =>
        /\ bounds[1].iteration_limit = call[1].iteration_limit
        /\ bounds[1].iteration_limit >= 0 =>
               bounds[1].iterations_run = bounds[1].iteration_limit
        /\ bounds[1].iteration_limit < 0 => bounds[1].iterations_run = 0

C12_Witness ==
    /\ DetermineReturned
    /\ OrdinaryArguments
    /\ ~bounds[1].is_valid
    /\ bounds[1].iteration_limit = MaxLimit
    /\ bounds[1].iterations_run = MaxLimit
    /\ Lt(Zero, BoundsProduct)

\* the micro-bracket of initial_bounds.rs:27-29 around the guess of the
\* last call of determine
MicroBracketLow == Sub(call[1].rate_low_guess, Mul(FromInt(10), Epsilon))
MicroBracketHigh == Add(call[1].rate_low_guess, Mul(FromInt(10), Epsilon))

\* C13: with iteration_limit = 0 and |NPV(rate_guess)| >= NPV_PRECISION,
\* determine returns is_valid = false, iterations_run = 0 and the bounds
\* rate_guess - 10 * epsilon and rate_guess + 10 * epsilon.
C13_NoBudgetReturnsMicroBracket ==
    (DetermineReturned /\ call[1].iteration_limit = 0
        /\ Le(NPV_PRECISION, Abs(pv(cash_flows, call[1].rate_low_guess)))) =>
        /\ ~bounds[1].is_valid
        /\ bounds[1].iterations_run = 0
        /\ bounds[1].iteration_limit = 0
        /\ bounds[1].rate_low = MicroBracketLow
        /\ bounds[1].rate_high = MicroBracketHigh
        /\ bounds[1].npv_rate_low = pv(cash_flows, MicroBracketLow)
        /\ bounds[1].npv_rate_high = pv(cash_flows, MicroBracketHigh)

\* the micro-bracket straddles a sign change and is still reported invalid
C13_Witness ==
    /\ DetermineReturned
    /\ OrdinaryArguments
    /\ call[1].iteration_limit = 0
    /\ Le(NPV_PRECISION, Abs(pv(cash_flows, call[1].rate_low_guess)))
    /\ ~bounds[1].is_valid
    /\ bounds[1].rate_low = MicroBracketLow
    /\ Lt(BoundsProduct, Zero)

\* ------------------------------------------------------------------------
\* The leaf functions (LeafSpec)
\* ------------------------------------------------------------------------

LeafReturned(fn) == calls >= 1 /\ call[1].fn = fn

\* cf * (1 + r)^(-i) written out for the periods 0 .. 3
DiscountedTerm(cf, i, r) ==
    LET d == Add(One, r)
    IN  CASE i = 0 -> cf
          [] i = 1 -> Mul(cf, Div(One, d))
          [] i = 2 -> Mul(cf, Div(One, Mul(d, d)))
          [] i = 3 -> Mul(cf, Div(One, Mul(d, Mul(d, d))))

\* the terms of a series of at most three cash flows added from period 0 on
DiscountedSum(cfs, r) ==
    CASE Len(cfs) = 0 -> NegZero
      [] Len(cfs) = 1 -> cfs[1]
      [] Len(cfs) = 2 -> Add(cfs[1], DiscountedTerm(cfs[2], 1, r))
      [] Len(cfs) = 3 -> Add(Add(cfs[1], DiscountedTerm(cfs[2], 1, r)),
                             DiscountedTerm(cfs[3], 2, r))

\* C14: from_cash_flows_and_discount_rate returns the sum of
\* cash_flows[i] * (1 + r)^(-i) with the period index starting at 0: the empty
\* series gives 0 (the -0.0 that the sum starts from), a one-element series
\* gives its element, and
\* present_value(cf, 0, r) is cf for every cf and r.
C14_NpvIsDiscountedSumFromPeriodZero ==
    /\ (LeafReturned("from_cash_flows_and_discount_rate") /\ Len(cash_flows) <= 3) =>
           result[1] = DiscountedSum(cash_flows, call[1].discount_rate)
    /\ (LeafReturned("present_value") /\ call[1].period <= 3) =>
           /\ result[1] = DiscountedTerm(call[1].cash_flow, call[1].period,
                                         call[1].discount_rate)
           /\ call[1].period = 0 => result[1] = call[1].cash_flow

C14_Witness ==
    /\ LeafReturned("from_cash_flows_and_discount_rate")
    /\ calls = 1
    /\ cash_flows = <<FromInt(-2), FromInt(3), FromInt(-1)>>
    /\ call[1].discount_rate = One
    /\ result[1] = Fin(-3, -2)

\* the second call evaluated the series scaled by ScaledBy; the first call
\* evaluated UnscaledSeries
NpvOfScaledReturned == LeafReturned("from_cash_flows_and_discount_rate") /\ calls = 2
ScaledBy == call[1].from[2]
UnscaledSeries == call[1].from[3]

\* finite and not subnormal
IsNormalOrZero(x) == IsFin(x) /\ (x.m = 0 \/ TopExp(x) >= 0 - MinExponent)

\* zero, a power of two, or the negative of one
IsPowerOfTwoOrZero(k) == IsFin(k) /\ k.m \in {-1, 0, 1}

\* the cash flows, the terms and the partial sums of NPV(cfs, r)
NpvValues(cfs, r) ==
    {cfs[i] : i \in 1 .. Len(cfs)}
    \cup {present_value(cfs[i], i - 1, r) : i \in 1 .. Len(cfs)}
    \cup {SumPresentValues(cfs, r, n) : n \in 0 .. Len(cfs)}

\* scaling by ScaledBy neither rounds, overflows nor leaves the normal range
ScalingIsExact ==
    /\ IsPowerOfTwoOrZero(ScaledBy)
    /\ \A x \in NpvValues(UnscaledSeries, call[1].discount_rate)
                \cup NpvValues(cash_flows, call[1].discount_rate)
                \cup {Mul(ScaledBy, previous[1])} : IsNormalOrZero(x)

\* The statement of C15 as written: for every series, rate r > -1 and scalar k,
\* NPV(k * cash_flows, r) = k * NPV(cash_flows, r).
C15_Original ==
    (NpvOfScaledReturned /\ Lt(FromInt(-1), call[1].discount_rate)) =>
        Eq(result[1], Mul(ScaledBy, previous[1]))

\* C15: for every series and rate r > -1, NPV(k * cash_flows, r) equals
\* k * NPV(cash_flows, r) when k is zero or plus or minus a power of two and no
\* cash flow, discounted term or partial sum of either series, nor the product
\* k * NPV, is infinite, NaN or subnormal.
C15_LinearUnderExactScaling ==
    (NpvOfScaledReturned /\ Lt(FromInt(-1), call[1].discount_rate) /\ ScalingIsExact) =>
        Eq(result[1], Mul(ScaledBy, previous[1]))

C15_Witness ==
    /\ NpvOfScaledReturned
    /\ ScalingIsExact
    /\ ScaledBy = Two
    /\ UnscaledSeries = <<FromInt(-2), FromInt(3), FromInt(-1)>>
    /\ call[1].discount_rate = Fin(1, -1)
    /\ result[1] = Mul(Two, previous[1])
    /\ result[1] # Zero

\* a * b and a + b are finite and were not rounded
ExactMul(a, b) == IsFin(a) /\ IsFin(b) /\ Mul(a, b) = Fin(a.m * b.m, a.e + b.e)
ExactAdd(a, b) ==
    /\ IsFin(a) /\ IsFin(b)
    /\ \/ a.m = 0
       \/ b.m = 0
       \/ /\ TopExp(a) - TopExp(b) <= Precision + 1
          /\ TopExp(b) - TopExp(a) <= Precision + 1
          /\ Add(a, b) = Fin(AlignMant(a, AlignExp(a, b)) + AlignMant(b, AlignExp(a, b)),
                             AlignExp(a, b))

FutureValueReturned == LeafReturned("from_pv_and_expected_rates")
FutureValueOfPermutedReturned == FutureValueReturned /\ calls = 2

\* the order of the rates in the first call
FirstOrder == call[1].from[2]

\* pv * (1 + r1) * (1 + r2) * ... multiplied from the left, written out for
\* at most four rates
ProductFromLeft(v, q) ==
    CASE Len(q) = 0 -> v
      [] Len(q) = 1 -> Mul(v, Add(One, q[1]))
      [] Len(q) = 2 -> Mul(Mul(v, Add(One, q[1])), Add(One, q[2]))
      [] Len(q) = 3 -> Mul(Mul(Mul(v, Add(One, q[1])), Add(One, q[2])), Add(One, q[3]))
      [] Len(q) = 4 -> Mul(Mul(Mul(Mul(v, Add(One, q[1])), Add(One, q[2])),
                               Add(One, q[3])), Add(One, q[4]))

\* no sum 1 + rate and no multiplication of the fold over q rounds or overflows
FoldIsExact(v, q) ==
    \A n \in 1 .. Len(q) :
        /\ ExactAdd(One, q[n])
        /\ ExactMul(FoldExpectedRates(v, q, n - 1), Add(One, q[n]))

\* The statement of C16 as written: the result is the same for every
\* permutation of the rates.
C16_Original == FutureValueOfPermutedReturned => result[1] = previous[1]

\* C16: from_pv_and_expected_rates(pv, rates) is pv multiplied in turn, from the
\* first rate to the last, by each 1 + rate; it returns pv unchanged for the
\* empty sequence; and two orders of the same rates give the same result when
\* no addition or multiplication of either evaluation rounds or overflows.
C16_LeftFoldOfGrowthFactors ==
    /\ (FutureValueReturned /\ Len(call[1].expected_rates) <= 4) =>
           result[1] = ProductFromLeft(call[1].present_value, call[1].expected_rates)
    /\ (FutureValueReturned /\ call[1].expected_rates = <<>>) =>
           result[1] = call[1].present_value
    /\ (/\ FutureValueOfPermutedReturned
        /\ FoldIsExact(call[1].present_value, FirstOrder)
        /\ FoldIsExact(call[1].present_value, call[1].expected_rates)) =>
           result[1] = previous[1]

C16_Witness ==
    /\ FutureValueOfPermutedReturned
    /\ call[1].present_value = One
    /\ FirstOrder = <<Zero, One, Fin(1, -2)>>
    /\ call[1].expected_rates = <<Fin(1, -2), Zero, One>>
    /\ FoldIsExact(call[1].present_value, FirstOrder)
    /\ FoldIsExact(call[1].present_value, call[1].expected_rates)
    /\ result[1] = Fin(5, -1)
    /\ previous[1] = Fin(5, -1)

MidpointReturned == LeafReturned("calculate")
MidpointOfSwappedReturned == MidpointReturned /\ calls = 2

MinOf(a, c) == IF Lt(c, a) THEN c ELSE a
MaxOf(a, c) == IF Lt(a, c) THEN c ELSE a

\* x / 2 was not rounded
ExactHalf(x) == IsFin(x) /\ Div(x, Two) = Fin(x.m, x.e - 1)

\* none of c - a, (c - a) / 2 and a + (c - a) / 2 rounds or overflows
MidpointIsExact(a, c) ==
    /\ ExactAdd(c, Neg(a))
    /\ ExactHalf(Sub(c, a))
    /\ ExactAdd(a, Div(Sub(c, a), Two))

\* The statement of C17 as written: for all finite a and c the midpoint m has
\* m - a = c - m and min(a, c) <= m <= max(a, c), and calculate(a, c) =
\* calculate(c, a).
C17_Original ==
    /\ (MidpointReturned /\ IsFin(call[1].a) /\ IsFin(call[1].c)) =>
           /\ Eq(Sub(result[1], call[1].a), Sub(call[1].c, result[1]))
           /\ Le(MinOf(call[1].a, call[1].c), result[1])
           /\ Le(result[1], MaxOf(call[1].a, call[1].c))
    /\ (MidpointOfSwappedReturned /\ IsFin(call[1].a) /\ IsFin(call[1].c)) =>
           result[1] = previous[1]

\* C17: calculate(a, c) is a + (c - a) / 2 evaluated in T.  For finite a and c
\* whose difference c - a does not overflow, min(a, c) <= m <= max(a, c); and
\* when none of the three operations rounds, m - a = c - m and
\* calculate(a, c) = calculate(c, a).
C17_MidpointBetweenOperands ==
    /\ MidpointReturned =>
           result[1] = Add(call[1].a, Div(Sub(call[1].c, call[1].a), Two))
    /\ (/\ MidpointReturned
        /\ IsFin(call[1].a) /\ IsFin(call[1].c)
        /\ IsFin(Sub(call[1].c, call[1].a))) =>
           /\ Le(MinOf(call[1].a, call[1].c), result[1])
           /\ Le(result[1], MaxOf(call[1].a, call[1].c))
    /\ (MidpointReturned /\ MidpointIsExact(call[1].a, call[1].c)) =>
           Eq(Sub(result[1], call[1].a), Sub(call[1].c, result[1]))
    /\ (MidpointOfSwappedReturned /\ MidpointIsExact(call[1].a, call[1].c)) =>
           result[1] = previous[1]

C17_Witness ==
    /\ MidpointOfSwappedReturned
    /\ call[1].a = Two
    /\ call[1].c = One
    /\ MidpointIsExact(call[1].a, call[1].c)
    /\ result[1] = Fin(3, -1)
    /\ previous[1] = Fin(3, -1)

\* |x| <= MAX / 2
WithinHalfOfMax(x) == IsFin(x) /\ Le(Abs(x), Div(MaxValue, Two))

\* |x| <= MAX
WithinMax(x) == IsFin(x) /\ Le(Abs(x), MaxValue)

\* C18: for all a and c with |a| <= MAX/2 and |c| <= MAX/2, each of c - a,
\* (c - a)/2 and the returned a + (c - a)/2 has magnitude at most MAX.
C18_NoOverflowWithinHalfOfMax ==
    (MidpointReturned /\ WithinHalfOfMax(call[1].a) /\ WithinHalfOfMax(call[1].c)) =>
        /\ WithinMax(Sub(call[1].c, call[1].a))
        /\ WithinMax(Div(Sub(call[1].c, call[1].a), Two))
        /\ WithinMax(result[1])

C18_Witness ==
    /\ MidpointReturned
    /\ calls = 1
    /\ call[1].a = Neg(Div(MaxValue, Two))
    /\ call[1].c = Div(MaxValue, Two)
    /\ Sub(call[1].c, call[1].a) = MaxValue
    /\ result[1] = Zero

IsTrueReturned == LeafReturned("is_true")

\* max(|a|, |b|) * epsilon evaluated in T
RelativeTolerance(a, b) == Mul(MaxOf(Abs(a), Abs(b)), Epsilon)

\* for finite a and b, |a - b| > 2 * max(|a|, |b|) * epsilon in exact arithmetic:
\* with a = ma * 2^x and b = mb * 2^x, |ma - mb| * 2^Precision > 4 * max(|ma|, |mb|).
\* Operands more than Precision + 1 binary places apart differ by more than half
\* the larger one.
ExactlyBeyondTwiceTolerance(a, b) ==
    IF a = b THEN FALSE
    ELSE IF a.m # 0 /\ b.m # 0 /\ (TopExp(a) - TopExp(b) > Precision + 1
                                   \/ TopExp(b) - TopExp(a) > Precision + 1)
         THEN TRUE
    ELSE LET x == AlignExp(a, b)
             ma == AlignMant(a, x)
             mb == AlignMant(b, x)
             larger == IF AbsInt(ma) < AbsInt(mb) THEN AbsInt(mb) ELSE AbsInt(ma)
         IN  AbsInt(ma - mb) * Pow2(Precision) > 4 * larger

\* C19: is_true(a, b) is true exactly when |a - b| <= max(|a|, |b|) * epsilon,
\* both sides evaluated in T; it is true for equal finite operands, and false
\* whenever |a - b| exceeds twice max(|a|, |b|) * epsilon, in T or exactly.
C19_RelativeEpsilonComparison ==
    IsTrueReturned =>
        /\ result[1] = Le(Abs(Sub(call[1].a, call[1].b)),
                          RelativeTolerance(call[1].a, call[1].b))
        /\ (IsFin(call[1].a) /\ call[1].a = call[1].b) => result[1]
        /\ Lt(Mul(Two, RelativeTolerance(call[1].a, call[1].b)),
              Abs(Sub(call[1].a, call[1].b))) => ~result[1]
        /\ (/\ IsFin(call[1].a) /\ IsFin(call[1].b)
            /\ ExactlyBeyondTwiceTolerance(call[1].a, call[1].b)) => ~result[1]

C19_Witness ==
    /\ IsTrueReturned
    /\ call[1].a = One
    /\ call[1].b = Add(One, Epsilon)
    /\ Abs(Sub(call[1].a, call[1].b)) = Epsilon
    /\ result[1] = TRUE

\* ------------------------------------------------------------------------
\* Repeated calls (RepeatSpec)
\* ------------------------------------------------------------------------

\* the last call has returned and the caller made the same call before
RepeatReturned(i) ==
    /\ pc = "idle"
    /\ calls >= 2
    /\ i \in 1 .. Len(previous)
    /\ previous[i].call = call[1]

\* every earlier call with the arguments of the last one returned the record
\* the last one returned
SameArgumentsSameRecord ==
    \A i \in 1 .. MaxCalls : RepeatReturned(i) => previous[i].returned = Returned

\* between calls nothing of a call is left but the record it returned
NoLocalsOutliveTheCall == pc = "idle" => det = <<>> /\ bis = <<>>

\* C20: determine and bisection never change the caller's cash-flow series,
\* leave no state behind when they return, and a call repeated with equal
\* arguments, directly or after another call, returns a record equal in every
\* field to the one returned before.
C20_PureFunctions ==
    /\ [][cash_flows' = cash_flows]_vars
    /\ [](SameArgumentsSameRecord /\ NoLocalsOutliveTheCall)

\* determine repeated after a call of bisection, the bracket search having run
C20_Witness ==
    /\ RepeatReturned(1)
    /\ calls = 3
    /\ call[1].fn = "determine"
    /\ previous[2].call.fn = "bisection"
    /\ previous[2].returned.iterations_run > 0
    /\ Returned.iterations_run > 0
    /\ previous[1].returned = Returned

\* ------------------------------------------------------------------------
\* bisection and determine on non-finite NPVs and on the loop (Spec)
\* ------------------------------------------------------------------------

\* the NPV was NaN at every rate the last call of bisection evaluated: the
\* caller's two rates and every midpoint
NaNAtEveryRate ==
    /\ IsNaN(NpvLowGuess)
    /\ IsNaN(NpvHighGuess)
    /\ \A i \in 1 .. Len(mids) : IsNaN(mids[i])
    /\ IsNaN(result[1].npv)

\* The statement of C21 as written: with the NPV NaN at every rate, bisection
\* returns is_valid = false with iterations_run = iteration_limit.
C21_Original ==
    (BisectionReturned /\ NaNAtEveryRate) =>
        /\ ~result[1].is_valid
        /\ result[1].iterations_run = result[1].iteration_limit

\* C21: with the NPV NaN at every rate bisection evaluates, bisection returns
\* a record (nothing else can happen), with is_valid = false, with
\* iterations_run = iteration_limit when iteration_limit >= 0 and
\* iterations_run = 0 when it is negative, and with the NaN as its npv.
C21_NaNRunsOutTheBudget ==
    (BisectionReturned /\ NaNAtEveryRate) =>
        /\ ~result[1].is_valid
        /\ result[1].iteration_limit = call[1].iteration_limit
        /\ result[1].iteration_limit >= 0 =>
               result[1].iterations_run = result[1].iteration_limit
        /\ result[1].iteration_limit < 0 => result[1].iterations_run = 0
        /\ Len(mids) = result[1].iterations_run

C21_Witness ==
    /\ BisectionReturned
    /\ NaNAtEveryRate
    /\ Le(call[1].rate_low_guess, FromInt(-1))
    /\ result[1].iteration_limit = MaxLimit
    /\ result[1].iterations_run = MaxLimit
    /\ ~result[1].is_valid

\* C22: on an empty cash-flow series bisection returns is_valid = false with
\* its budget used up (iterations_run = iteration_limit when the limit is not
\* negative), and determine returns is_valid = false.
C22_EmptySeriesIsInvalid ==
    /\ (BisectionReturned /\ cash_flows = <<>>) =>
           /\ ~result[1].is_valid
           /\ result[1].iteration_limit >= 0 =>
                  result[1].iterations_run = result[1].iteration_limit
    /\ (DetermineReturned /\ cash_flows = <<>>) => ~bounds[1].is_valid

\* ------------------------------------------------------------------------
\* The result records (RecordSpec)
\* ------------------------------------------------------------------------

\* the record the caller constructed
Constructed == IF call[1].fn = "Irr::new" THEN result ELSE bounds

\* the argument of new(...) for the field an accessor is named after
ArgumentRead(accessor) ==
    CASE accessor \in {"rate_low", "get_rate_low"} -> call[1].rate_low
      [] accessor = "get_npv_rate_low" -> call[1].npv_rate_low
      [] accessor = "get_rate_high" -> call[1].rate_high
      [] accessor = "get_npv_rate_high" -> call[1].npv_rate_high
      [] accessor = "get_iteration_limit" -> call[1].iteration_limit
      [] accessor = "get_iterations_run" -> call[1].iterations_run
      [] accessor = "get_irr" -> call[1].irr
      [] accessor = "get_npv" -> call[1].npv
      [] accessor = "is_valid" -> call[1].is_valid

\* an accessor has been called and has returned
AccessorReturned == mids # <<>>

\* C23: after new(...), every accessor of Irr and of InitialBounds returns
\* exactly the value passed to the constructor for its field, and no
\* operation (accessor, Debug or Display formatting) changes the record once
\* it is constructed.
C23_AccessorsReturnConstructorArguments ==
    /\ [](AccessorReturned => mids[1].value = ArgumentRead(mids[1].accessor))
    /\ [][result # <<>> => result' = result]_vars
    /\ [][bounds # <<>> => bounds' = bounds]_vars

\* get_npv_rate_high read after the Irr was formatted
C23_Witness ==
    /\ call[1].fn = "Irr::new"
    /\ AccessorReturned
    /\ previous # <<>>
    /\ calls = 2
    /\ mids[1].accessor = "get_npv_rate_high"
    /\ mids[1].value = FromInt(-1)
    /\ call[1].npv_rate_low = Two

\* a Debug representation has been produced
DebugFormatted == previous # <<>> /\ previous[1].trait = "Debug"

\* the {:?} text of the value the accessor of the named field returns
AccessorDebugText(self, name) ==
    CASE name = "rate_low" -> FloatDebug(self.rate_low)
      [] name = "npv_rate_low" -> FloatDebug(get_npv_rate_low(self))
      [] name = "rate_high" -> FloatDebug(get_rate_high(self))
      [] name = "npv_rate_high" -> FloatDebug(get_npv_rate_high(self))
      [] name = "iteration_limit" -> IntText(get_iteration_limit(self))
      [] name = "iterations_run" -> IntText(get_iterations_run(self))
      [] name = "irr" -> FloatDebug(get_irr(self))
      [] name = "npv" -> FloatDebug(get_npv(self))
      [] name = "is_valid" -> BoolText(is_valid(self))

\* C30: the Debug representation of an Irr and of an InitialBounds shows,
\* under each field name, the value the accessor of that field returns.
C30_DebugShowsEachField ==
    DebugFormatted =>
        \A i \in DOMAIN previous[1].output.fields :
            previous[1].output.fields[i][2] =
                AccessorDebugText(Constructed[1], previous[1].output.fields[i][1])

\* the bracket the caller passed to the running or last call of bisection
\* straddles a sign change: NPV(rate_low) * NPV(rate_high) <= 0
EntryBracketStraddles == Le(Mul(NpvLowGuess, NpvHighGuess), Zero)

\* C24: if the input bracket satisfies NPV(rate_low) * NPV(rate_high) <= 0,
\* then after every loop iteration, and in the returned record,
\* npv_rate_low * npv_rate_high <= 0.  Stated for ordinary arguments.
C24_BracketKeepsTheSignChange ==
    /\ (pc = "bisection" /\ OrdinaryArguments /\ EntryBracketStraddles) =>
           Le(Mul(bis[1].npv_rate_low, bis[1].npv_rate_high), Zero)
    /\ (BisectionReturned /\ OrdinaryArguments /\ EntryBracketStraddles) =>
           Le(Mul(result[1].npv_rate_low, result[1].npv_rate_high), Zero)

\* one pass of the loop body of bisection (lines 86-97)
IterationStep == pc = "bisection" /\ pc' = "bisection"

\* lines 88-94: one bound and its NPV take the midpoint's values, the other
\* bound and its NPV stay
OneBoundReplaced ==
    \/ /\ bis'[1].rate_high = bis[1].irr
       /\ bis'[1].npv_rate_high = bis[1].npv
       /\ bis'[1].rate_low = bis[1].rate_low
       /\ bis'[1].npv_rate_low = bis[1].npv_rate_low
    \/ /\ bis'[1].rate_low = bis[1].irr
       /\ bis'[1].npv_rate_low = bis[1].npv
       /\ bis'[1].rate_high = bis[1].rate_high
       /\ bis'[1].npv_rate_high = bis[1].npv_rate_high

\* the i-th of the 2^j + 1 points that j halvings of the bracket (lo, hi)
\* can produce, computed as the code computes a midpoint
RECURSIVE GridPoint(_, _, _, _)
GridPoint(lo, hi, j, i) ==
    IF j = 0 THEN (IF i = 0 THEN lo ELSE hi)
    ELSE IF i % 2 = 0 THEN GridPoint(lo, hi, j - 1, i \div 2)
    ELSE calculate(GridPoint(lo, hi, j - 1, (i - 1) \div 2),
                   GridPoint(lo, hi, j - 1, (i + 1) \div 2))

\* exact arithmetic: no midpoint that k iterations from the caller's bracket
\* can compute, the returned one included, is rounded
GridIsExact(k) ==
    \A j \in 0 .. k : \A i \in 0 .. Pow2(j) - 1 :
        MidpointIsExact(GridPoint(call[1].rate_low_guess, call[1].rate_high_guess, j, i),
                        GridPoint(call[1].rate_low_guess, call[1].rate_high_guess, j, i + 1))

\* the integer n with a = n * 2^TinyExponent, for a finite a
Units(a) == a.m * Pow2(a.e - TinyExponent)

MinInt(a, b) == IF a < b THEN a ELSE b
MaxInt(a, b) == IF a < b THEN b ELSE a

\* in the rationals: the returned bracket lies in the caller's, is the
\* caller's width over 2^iterations_run, and the returned irr is its middle
Halved ==
    LET lo0 == Units(call[1].rate_low_guess)
        hi0 == Units(call[1].rate_high_guess)
        lo == Units(result[1].rate_low)
        hi == Units(result[1].rate_high)
    IN  /\ MinInt(lo0, hi0) <= MinInt(lo, hi)
        /\ MaxInt(lo, hi) <= MaxInt(lo0, hi0)
        /\ (hi - lo) * Pow2(result[1].iterations_run) = hi0 - lo0
        /\ 2 * Units(result[1].irr) = lo + hi

\* C25: each pass of bisection's loop replaces one bound and its NPV by the
\* midpoint and the NPV there and leaves the other bound and its NPV as they
\* were; a call that entered the loop returns irr = calculate(rate_low,
\* rate_high) of the bounds it returns; and when no midpoint is rounded, after
\* k iterations the returned bracket lies inside the caller's, its width is
\* the caller's divided by 2^k, and irr is exactly its middle.
C25_IterationHalvesTheBracket ==
    /\ [][IterationStep => OneBoundReplaced]_vars
    /\ []((BisectionReturned /\ ~RejectedAtEntry) =>
              result[1].irr = calculate(result[1].rate_low, result[1].rate_high))
    /\ []((/\ BisectionReturned
           /\ ~RejectedAtEntry
           /\ GridIsExact(result[1].iterations_run)) => Halved)

C25_Witness ==
    /\ BisectionReturned
    /\ ~RejectedAtEntry
    /\ call[1].rate_low_guess = Zero
    /\ call[1].rate_high_guess = One
    /\ GridIsExact(result[1].iterations_run)
    /\ result[1].iterations_run = MaxLimit
    /\ result[1].rate_low = Fin(7, -3)
    /\ result[1].rate_high = One
    /\ result[1].irr = Fin(15, -4)

\* the last call of bisection left the loop of line 85 on its second
\* condition, with iterations still in hand
LeftByEqualityTest ==
    /\ BisectionReturned
    /\ ~RejectedAtEntry
    /\ result[1].iterations_run < result[1].iteration_limit
    /\ is_true(NPV_PRECISION, result[1].npv)

\* the last call of bisection left the loop of line 85 on its first condition
LeftByExhaustion ==
    /\ BisectionReturned
    /\ ~RejectedAtEntry
    /\ ~(result[1].iterations_run < result[1].iteration_limit)
    /\ ~is_true(NPV_PRECISION, result[1].npv)

\* C26: a call of bisection that leaves its loop because
\* is_true(NPV_PRECISION, npv) holds returns is_valid = true, and one that
\* leaves it because the iterations ran out returns is_valid = false exactly
\* when the final |npv| exceeds NPV_PRECISION.
C26_ConvergedIsValid ==
    /\ LeftByEqualityTest => result[1].is_valid
    /\ LeftByExhaustion =>
           (~result[1].is_valid <=> Lt(NPV_PRECISION, Abs(result[1].npv)))

\* ------------------------------------------------------------------------
\* determine on guesses of every magnitude
\* ------------------------------------------------------------------------

\* the guesses of Rates, -1/4, guesses whose unit in the last place exceeds
\* 10 * epsilon (32, 64, -64), an infinite one and NaN
WideRates ==
    Rates \cup {Fin(-1, -2), Fin(1, 5), Fin(1, 6), Fin(-1, 6), PosInf, NaN}

\* iteration_limit: &i16, up to the pass in which epsilon_multiple saturates
WideLimits == -1 .. MaxLimit + 1

WideNext ==
    \/ \E g \in WideRates, l \in WideLimits : DetermineGoodGuess(g, l)
    \/ \E g \in WideRates, l \in WideLimits : DetermineStart(g, l)
    \/ DetermineFound
    \/ DetermineShift
    \/ DetermineExhausted

WideSpec == Init /\ [][WideNext]_vars

\* one pass of the loop body of determine (lines 48-61)
DetermineStep == pc = "determine" /\ pc' = "determine"

\* epsilon_multiple * T::epsilon() of the pass just made (lines 52, 55)
StepTaken == Mul(det'[1].epsilon_multiple, Epsilon)

\* the step s is at least the unit in the last place of x, so that x - s
\* and x + s differ from x
StepCounts(x, s) ==
    IsFin(x) /\ (x.m = 0 \/ Le(Fin(1, UlpExponent[TopExp(x)]), s))

\* The statement of C27 as written: the direction is that of the first
\* bracket, every step moves the bracket strictly down or strictly up,
\* and rate_low < rate_high in every bracket.
C27_Original ==
    /\ [][DetermineStep =>
            /\ det'[1].go_low = det[1].go_low
            /\ det[1].go_low =>
                   /\ det'[1].rate_high = det[1].rate_low
                   /\ Lt(det'[1].rate_low, det[1].rate_low)
            /\ ~det[1].go_low =>
                   /\ det'[1].rate_low = det[1].rate_high
                   /\ Lt(det[1].rate_high, det'[1].rate_high)]_vars
    /\ [](pc = "determine" => Lt(det[1].rate_low, det[1].rate_high))

\* C27: determine sets go_low once, from |npv_rate_low| < |npv_rate_high| on
\* the first bracket, and every pass of its loop moves the bracket that way:
\* down (new rate_high = previous rate_low, new rate_low not higher) or up
\* (new rate_low = previous rate_high, new rate_high not lower), strictly when
\* the step epsilon_multiple * epsilon is at least one unit in the last place
\* of the bound it is taken from.  Consecutive brackets are adjacent, and
\* rate_low <= rate_high in every bracket of a call whose guess is not NaN.
C27_DirectionIsFixed ==
    /\ []((pc = "determine" /\ det[1].iterations_run = 0) =>
              det[1].go_low = Lt(Abs(det[1].npv_rate_low), Abs(det[1].npv_rate_high)))
    /\ [][DetermineStep =>
            /\ det'[1].go_low = det[1].go_low
            /\ det[1].go_low => det'[1].rate_high = det[1].rate_low
            /\ ~det[1].go_low => det'[1].rate_low = det[1].rate_high]_vars
    /\ [][(DetermineStep /\ ~IsNaN(call[1].rate_low_guess)) =>
            /\ det[1].go_low =>
                   /\ Le(det'[1].rate_low, det[1].rate_low)
                   /\ StepCounts(det[1].rate_low, StepTaken) =>
                          Lt(det'[1].rate_low, det[1].rate_low)
            /\ ~det[1].go_low =>
                   /\ Le(det[1].rate_high, det'[1].rate_high)
                   /\ StepCounts(det[1].rate_high, StepTaken) =>
                          Lt(det[1].rate_high, det'[1].rate_high)]_vars
    /\ []((pc = "determine" /\ ~IsNaN(call[1].rate_low_guess)) =>
              Le(det[1].rate_low, det[1].rate_high))

C27_Witness ==
    /\ pc = "determine"
    /\ call[1].rate_low_guess = Fin(1, 6)
    /\ det[1].iterations_run = 2
    /\ ~det[1].go_low
    /\ det[1].rate_low = Fin(1, 6)
    /\ det[1].rate_high = Fin(9, 3)

\* a bracket of determine: in its loop, or returned from it (not the
\* return of lines 15-25)
DetermineBracket ==
    IF pc = "determine" THEN det[1]
    ELSE [rate_low |-> bounds[1].rate_low, rate_high |-> bounds[1].rate_high,
          iterations_run |-> bounds[1].iterations_run,
          go_low |-> Lt(Abs(pv(cash_flows, Sub(call[1].rate_low_guess,
                                                Mul(FromInt(10), Epsilon)))),
                        Abs(pv(cash_flows, Add(call[1].rate_low_guess,
                                                Mul(FromInt(10), Epsilon)))))]

InDetermine ==
    \/ pc = "determine"
    \/ DetermineReturned /\ ~GoodGuess(pv(cash_flows, call[1].rate_low_guess))

\* the exponent x for which the guess and 10 * epsilon = 5 * 2^(2 - Precision)
\* are integer multiples of 2^x
StepExp == IF call[1].rate_low_guess.e < 2 - Precision
           THEN call[1].rate_low_guess.e ELSE 2 - Precision
GuessUnits == AlignMant(call[1].rate_low_guess, StepExp)
TenEpsilonUnits == 5 * Pow2(2 - Precision - StepExp)

\* in the rationals, in multiples of 2^StepExp: the bounds after k passes
\* searching low, guess - 10e(2^(k+1) - 1) and guess - 10e(2^k - 1), and
\* searching high, guess + 10e(2^k - 1) and guess + 10e(2^(k+1) - 1)
ExpectedLow(k, go_low) ==
    IF k = 0 \/ go_low THEN GuessUnits - TenEpsilonUnits * (Pow2(k + 1) - 1)
    ELSE GuessUnits + TenEpsilonUnits * (Pow2(k) - 1)
ExpectedHigh(k, go_low) ==
    IF k = 0 \/ ~go_low THEN GuessUnits + TenEpsilonUnits * (Pow2(k + 1) - 1)
    ELSE GuessUnits - TenEpsilonUnits * (Pow2(k) - 1)

\* n * 2^StepExp is a value of T
Representable(n) == Round(n, 1, StepExp) = Fin(n, StepExp)

\* exact arithmetic: no bound of the brackets up to the k-th is rounded
BracketsAreExact(k, go_low) ==
    /\ IsFin(call[1].rate_low_guess)
    /\ \A j \in 0 .. k : /\ Representable(ExpectedLow(j, go_low))
                         /\ Representable(ExpectedHigh(j, go_low))

\* the multiplier has not saturated in the first k passes (line 79)
NotSaturated(k) ==
    \A j \in 0 .. k - 1 : Lt(Fin(10, j), Div(MaxValue, Two))

\* C28: determine's multiplier starts at 10 and doubles in each pass until it
\* saturates, and never exceeds T::max_value(); before it saturates and when
\* no bound is rounded, the first bracket is (guess - 10e, guess + 10e) and
\* the bracket after k >= 1 passes is (guess - 10e(2^(k+1) - 1),
\* guess - 10e(2^k - 1)) searching low and (guess + 10e(2^k - 1),
\* guess + 10e(2^(k+1) - 1)) searching high, e being T::epsilon().
C28_StepsGrowGeometrically ==
    /\ pc = "determine" => Le(det[1].epsilon_multiple, MaxValue)
    /\ (pc = "determine" /\ NotSaturated(det[1].iterations_run)) =>
           det[1].epsilon_multiple = Fin(10, det[1].iterations_run)
    /\ (/\ InDetermine
        /\ NotSaturated(DetermineBracket.iterations_run)
        /\ BracketsAreExact(DetermineBracket.iterations_run, DetermineBracket.go_low)) =>
           /\ DetermineBracket.rate_low =
                  Fin(ExpectedLow(DetermineBracket.iterations_run, DetermineBracket.go_low),
                      StepExp)
           /\ DetermineBracket.rate_high =
                  Fin(ExpectedHigh(DetermineBracket.iterations_run, DetermineBracket.go_low),
                      StepExp)

C28_Witness ==
    /\ pc = "determine"
    /\ call[1].rate_low_guess = Fin(1, -2)
    /\ ~det[1].go_low
    /\ det[1].iterations_run = 2
    /\ NotSaturated(2)
    /\ BracketsAreExact(2, FALSE)
    /\ det[1].rate_low = FromInt(4)
    /\ det[1].rate_high = FromInt(9)
    /\ det[1].epsilon_multiple = FromInt(40)

\* C29: is_true(a, b) = is_true(b, a), and is_true(a, 0) holds for nonzero a
\* of small magnitude: at the least for the value of T nearest zero, and for
\* an NPV below the tolerance that counts as zero.
C29_SymmetricAndUsableAgainstZero ==
    IsTrueReturned =>
        /\ result[1] = is_true(call[1].b, call[1].a)
        /\ (call[1].b = Zero /\ Abs(call[1].a) = Tiny) => result[1]
        /\ (call[1].b = Zero /\ Lt(Abs(call[1].a), NPV_PRECISION)) => result[1]

====
